---- MODULE Spec2Model ----
(***************************************************************************)
(* Workout tracker: the LogWorkout draft and its submission, the workouts  *)
(* collection of the document store, the WorkoutHistory screen that        *)
(* mirrors the collection through a live onSnapshot subscription, the      *)
(* PersonalStatistics screen, and the forms that write the exercises       *)
(* collection and the profile document.                                    *)
(*                                                                         *)
(* Spec   : the screen components on their own: every handler may be       *)
(*          invoked with any argument in any state of its component.       *)
(* SpecUI : the application as rendered: a handler runs only through a     *)
(*          control that is rendered and not disabled.                     *)
(* SpecSync : the WorkoutHistory screen, its subscription, and the writes  *)
(*          of other sessions to the collection it mirrors.                *)
(* SpecStats : the PersonalStatistics screen opened on a collection of     *)
(*          logged workouts, and the figures it derives from its mirror.   *)
(* SpecCatalog : the ExerciseList screen and its delete, with the history  *)
(*          and statistics screens of the same user.                       *)
(* SpecForms : the handlers of AddExercise, SetUsername, ExerciseList and  *)
(*          the LogWorkout submit on their own, with or without a user.    *)
(* SpecHistory : the WorkoutHistory screen as rendered, under fairness.    *)
(***************************************************************************)
EXTENDS Integers, Sequences, FiniteSets, TLC

(* ----------------------------- bounds --------------------------------- *)
MaxOps == 2         \* Spec: field updates and accepted submits in one run
MaxDocsUI == 2      \* SpecUI: workout documents submitted in one run
MaxRemoteDocs == 2  \* SpecSync: documents written by other sessions in one run
MaxScheduled == 2   \* listener callbacks scheduled and not yet run
MaxSubs == 2        \* onSnapshot subscriptions opened in one run
MaxTimers == 1      \* message-clearing timeouts armed and not yet fired
MaxStatRecords == 2  \* SpecStats: workout documents in the collection at the start
MaxPendingOps == 1  \* store calls of the form handlers awaiting their promise
MaxFormCalls == 2  \* SpecForms: addDoc calls in one run, and store calls awaiting their promise
MaxEdits == 1       \* SpecRetry: field updates in one run
MaxFetches == 2     \* SpecAuth: getDoc calls of the provider awaiting their promise

(* --------------------------- input domains ---------------------------- *)
NoUser == "null"
Users == {"u1", "u2"}
UserIds == Users \cup {NoUser}

HOME == "home"
LOG_WORKOUT == "logWorkout"
WORKOUT_HISTORY == "workoutHistory"
ADD_EXERCISE == "addExercise"
EXERCISE_LIST == "exerciseList"
PERSONAL_STATS == "personalStats"
SET_USERNAME == "setUsername"
PAGES == {HOME, ADD_EXERCISE, LOG_WORKOUT, WORKOUT_HISTORY, EXERCISE_LIST,
          PERSONAL_STATS, SET_USERNAME}

\* documents of the user's exercises collection; two of them share a name
ExerciseDefs ==
    { [id |-> "e1", name |-> "Squat"],
      [id |-> "e2", name |-> "Bench"],
      [id |-> "e3", name |-> "Squat"] }
ExerciseNames == { e.name : e \in ExerciseDefs }

\* e.target.value of the number inputs and of the notes textarea
InputValues == {"", "2", "-1", "abc"}
NoteValues == {"", "felt easy"}
NumericFields == {"sets", "reps", "weight"}
Fields == NumericFields \cup {"notes"}

\* calendar days of the date input, counted from 1970-01-01
Today == 1
Days == {-1, Today}

(* ------------------------- JavaScript values -------------------------- *)
EmptyString == [type |-> "string"]
NaN == [type |-> "NaN"]
Number(n) == [type |-> "number", num |-> n]
IsNumber(v) == v.type = "number"

NullDate == [type |-> "null"]
NoUsername == [type |-> "null"]
String(text) == [type |-> "string", text |-> text]
DateAt(t) == [type |-> "date", time |-> t]

\* the store keeps a Date as a Timestamp; Timestamp.toDate() gives it back
Timestamp(t) == [type |-> "timestamp", time |-> t]
fromDate(d) == Timestamp(d.time)
toDate(ts) == DateAt(ts.time)

\* parseFloat of a string: the leading decimal number, NaN when there is none
parseFloat(s) ==
    CASE s = "0" -> Number(0)
      [] s = "1" -> Number(1)
      [] s = "2" -> Number(2)
      [] s = "-1" -> Number(-1)
      [] OTHER -> NaN

\* String(x) of a number, as parseFloat applies it to a non-string argument
NumberToString(v) ==
    CASE v = Number(0) -> "0"
      [] v = Number(1) -> "1"
      [] v = Number(2) -> "2"
      [] v = Number(-1) -> "-1"
      [] OTHER -> "NaN"

\* x || 0 : NaN and 0 are falsy
OrZero(v) == IF v = NaN \/ v = Number(0) THEN Number(0) ELSE v

\* a maximum that lets a negative number through
MathMax0Unclamped(v) == v

\* Math.max(0, x) of a number
MathMax0(v) == IF v.num < 0 THEN Number(0) ELSE v

\* parseFloat of a draft field that holds a number: the number is converted
\* to a string and the string is parsed
parseFloatOfNumber(v) == parseFloat(NumberToString(v))

\* new Date(workoutDate + 'T12:00:00').getTime(), in hours since the epoch
NoonTime(day) == day * 24 + 12

\* performed exercises of the documents the statistics are computed from: two
\* written by LogWorkout, one whose name is an integer index, and one of an
\* older client with no name and '' for its sets
StatSquat == [exerciseName |-> "Squat", sets |-> Number(3), reps |-> Number(5),
              weight |-> Number(10), notes |-> ""]
StatBench == [exerciseName |-> "Bench", sets |-> Number(2), reps |-> Number(8),
              weight |-> Number(0), notes |-> ""]
StatFive == [exerciseName |-> "5", sets |-> Number(1), reps |-> Number(1),
             weight |-> Number(10), notes |-> ""]
StatLegacy == [exerciseName |-> "", sets |-> EmptyString, reps |-> Number(1),
               weight |-> Number(2), notes |-> ""]
StatExercises == {StatSquat, StatBench, StatFive, StatLegacy}

\* exercisesPerformed of a document: non-empty, no name twice
StatLists ==
    { <<a>> : a \in StatExercises } \cup
    { <<StatSquat, StatFive>>, <<StatFive, StatSquat>>,
      <<StatSquat, StatBench>>, <<StatLegacy, StatBench>> }

VARIABLES
    userId,                      \* FirebaseContext userId
    currentPage,                 \* AppContent currentPage
    workoutDate,                 \* LogWorkout state
    workoutExercises,
    message,
    messageType,
    isSavingWorkout,
    showExerciseSelectionModal,
    messageTimers,               \* armed setTimeout callbacks of LogWorkout
    editCount,                   \* handleUpdateExerciseDetails calls so far
    blankedWeight,               \* names of the entries whose weight the last
                                 \* weight update of the entry set to ''
    pendingAddDocs,              \* addDoc calls whose promise is not settled
    workoutsStore,               \* user -> documents of the workouts collection
    nextDocId,                   \* next store-assigned document id
    workouts,                    \* WorkoutHistory state
    isLoading,
    fetchError,
    historySub,                  \* subscription held by the history effect
    subs,                        \* state of every onSnapshot subscription
    scheduled,                   \* listener callbacks scheduled by the SDK
    stats,                       \* PersonalStatistics stats
    expandedWorkoutId,           \* WorkoutHistory expandedWorkoutId
    username,                    \* FirebaseContext username
    profileFetches,              \* getDoc calls of the provider, not settled
    profileStore,                \* user -> username of the profile document
    exercisesStore,              \* user -> documents of the exercises collection
    nextExerciseId,              \* next store-assigned exercise document id
    pendingOps,                  \* addDoc/setDoc/deleteDoc calls of the forms, not settled
    exerciseName,                \* AddExercise exerciseName
    inputUsername,               \* SetUsername inputUsername
    pageMessage,                 \* message of the mounted AddExercise,
    pageMessageType,             \*   SetUsername or ExerciseList
    pageTimers,                  \* its armed setTimeout callbacks
    isSaving,                    \* isSaving of AddExercise or SetUsername
    showConfirmModal,            \* ExerciseList delete confirmation
    exerciseToDeleteId,
    exerciseToDeleteName

logVars == <<workoutDate, workoutExercises, message, messageType,
             isSavingWorkout, showExerciseSelectionModal, messageTimers>>
historyVars == <<workouts, isLoading, fetchError>>
subVars == <<historySub, subs, scheduled>>
storeVars == <<workoutsStore, nextDocId>>
editVars == <<editCount, blankedWeight>>
identityVars == <<username, profileFetches>>
catalogVars == <<profileStore, exercisesStore, nextExerciseId>>
formVars == <<exerciseName, inputUsername, pageMessage, pageMessageType,
              pageTimers, isSaving, pendingOps>>
deleteVars == <<showConfirmModal, exerciseToDeleteId, exerciseToDeleteName>>
\* what the handlers of AddExercise, SetUsername and ExerciseList do not touch
nonFormVars == <<userId, currentPage, logVars, editVars, pendingAddDocs, storeVars,
                 historyVars, subVars, stats, expandedWorkoutId>>
\* what the LogWorkout and WorkoutHistory handlers do not touch
extVars == <<stats, expandedWorkoutId, identityVars, catalogVars, formVars,
             deleteVars>>
vars == <<userId, currentPage, logVars, editVars, pendingAddDocs,
          storeVars, historyVars, subVars, extVars>>


(* ------------------------------ helpers ------------------------------- *)
\* Array.prototype.some
Some(arr, P(_)) == \E i \in 1..Len(arr) : P(arr[i])

\* Array.prototype.map
Map(arr, F(_)) == [i \in 1..Len(arr) |-> F(arr[i])]

\* a removal that drops the last entry, whatever the position asked for
FilterOutLast(arr, index) ==
    [i \in 1..(Len(arr) - (IF index \in 1..Len(arr) THEN 1 ELSE 0)) |-> arr[i]]

\* Array.prototype.filter((_, i) => i !== index), with 1-based positions
FilterOutIndex(arr, index) ==
    [i \in 1..(Len(arr) - (IF index \in 1..Len(arr) THEN 1 ELSE 0)) |->
        IF i < index THEN arr[i] ELSE arr[i + 1]]

RemoveAt(q, i) == [j \in 1..(Len(q) - 1) |-> IF j < i THEN q[j] ELSE q[j + 1]]

(* --------------------------- user messages ---------------------------- *)
MsgNone == ""
MsgDuplicate(name) == "'" \o name \o "' is already added to this workout."
MsgNotAuthenticated == "User not authenticated or app ID not available. Cannot save workout."
MsgEmptyWorkout == "Please add at least one exercise to your workout."
MsgSaved == "Workout logged successfully!"
MsgSaveFailed == "Failed to log workout. Please try again."
MsgFetchFailed == "Failed to load workout history. Please try again."
NoFetchError == "null"

(* ------------------------------- Init --------------------------------- *)
\* useState(null) of expandedWorkoutId and exerciseToDeleteId; the store's
\* document ids start at 1
NoWorkoutId == 0
NoExerciseId == 0

\* the profile documents of the store: the first user has set a username, the
\* second has not
ProfilesAtStart == [u \in Users |-> IF u = "u1" THEN String("sam") ELSE NoUsername]

\* useState initial values of LogWorkout
LogWorkoutInitial ==
    /\ workoutDate' = Today
    /\ workoutExercises' = <<>>
    /\ message' = MsgNone
    /\ messageType' = ""
    /\ isSavingWorkout' = FALSE
    /\ showExerciseSelectionModal' = FALSE
    /\ messageTimers' = 0

\* useState initial values of WorkoutHistory
WorkoutHistoryInitial ==
    /\ workouts' = <<>>
    /\ isLoading' = TRUE
    /\ fetchError' = ""

\* a JavaScript number that is a quotient of two integers, in lowest terms
RECURSIVE GCD(_, _)
GCD(a, b) == IF b = 0 THEN a ELSE GCD(b, a % b)
Quotient(a, b) == [num |-> a \div GCD(a, b), den |-> b \div GCD(a, b)]
Zero == [num |-> 0, den |-> 1]

NotAvailable == "N/A"
UnknownExercise == "Unknown Exercise"

\* useState initial value of stats, and the value the stats effect resets to
StatsInitial ==
    [totalWorkouts |-> 0,
     totalExercisesLogged |-> 0,
     totalVolumeLifted |-> 0,
     mostFrequentExercise |-> NotAvailable,
     averageExercisesPerWorkout |-> Zero]

Init ==
    /\ userId = NoUser
    /\ currentPage = HOME
    /\ workoutDate = Today
    /\ workoutExercises = <<>>
    /\ message = MsgNone
    /\ messageType = ""
    /\ isSavingWorkout = FALSE
    /\ showExerciseSelectionModal = FALSE
    /\ messageTimers = 0
    /\ editCount = 0
    /\ blankedWeight = {}
    /\ pendingAddDocs = <<>>
    /\ workoutsStore = [u \in Users |-> <<>>]
    /\ nextDocId = 1
    /\ workouts = <<>>
    /\ isLoading = TRUE
    /\ fetchError = ""
    /\ historySub = 0
    /\ subs = <<>>
    /\ scheduled = <<>>
    /\ stats = StatsInitial
    /\ expandedWorkoutId = NoWorkoutId
    /\ username = NoUsername
    /\ profileFetches = <<>>
    /\ profileStore = ProfilesAtStart
    /\ exercisesStore = [u \in Users |-> <<>>]
    /\ nextExerciseId = 1
    /\ pendingOps = <<>>
    /\ exerciseName = <<>>
    /\ inputUsername = <<>>
    /\ pageMessage = MsgNone
    /\ pageMessageType = ""
    /\ pageTimers = 0
    /\ isSaving = FALSE
    /\ showConfirmModal = FALSE
    /\ exerciseToDeleteId = NoExerciseId
    /\ exerciseToDeleteName = ""


(* ------------------------- store and listeners ------------------------ *)
Mounted(page) == currentPage = page

\* listeners that are still served after they have failed
ListeningAfterError(ss, u) ==
    { s \in 1..Len(ss) : ss[s].user = u /\ ~ss[s].muted }

\* the subscriptions the SDK still raises events for on a user's collection
Listening(ss, u) ==
    { s \in 1..Len(ss) : ss[s].user = u /\ ~ss[s].muted /\ ~ss[s].failed }

SnapshotEvent(s, docs) == [sub |-> s, kind |-> "snapshot", docs |-> docs]
ErrorEvent(s) == [sub |-> s, kind |-> "error", docs |-> <<>>]

\* a store that raises no snapshot for a change
NotifyNobody(ss, queue, u, docs) == queue

\* a change of u's collection raises one snapshot with the full result set
\* for the live listener of that collection (the model holds at most one)
NotifyListeners(ss, queue, u, docs) ==
    IF Listening(ss, u) = {} THEN queue
    ELSE Append(queue, SnapshotEvent(CHOOSE s \in Listening(ss, u) : TRUE, docs))

CanNotify(u) == Listening(subs, u) # {} => Len(scheduled) < MaxScheduled

(* ------------------------------ LogWorkout ---------------------------- *)
\* a duplicate check that looks at the last entry only
NameInDraftLastOnly(name) ==
    /\ Len(workoutExercises) > 0
    /\ workoutExercises[Len(workoutExercises)].exerciseName = name

NameInDraft(name) == Some(workoutExercises, LAMBDA item : item.exerciseName = name)

NewDraftEntry(exercise) ==
    [exerciseName |-> exercise.name,
     sets |-> Number(1),
     reps |-> Number(1),
     weight |-> EmptyString,
     notes |-> ""]

setWorkoutDate(day) ==
    /\ Mounted(LOG_WORKOUT)
    /\ workoutDate' = day
    /\ UNCHANGED <<extVars, userId, currentPage, workoutExercises, message, messageType,
                   isSavingWorkout, showExerciseSelectionModal, messageTimers,
                   editVars, pendingAddDocs, storeVars, historyVars, subVars>>

setShowExerciseSelectionModal(open) ==
    /\ Mounted(LOG_WORKOUT)
    /\ showExerciseSelectionModal' = open
    /\ UNCHANGED <<extVars, userId, currentPage, workoutDate, workoutExercises, message,
                   messageType, isSavingWorkout, messageTimers,
                   editVars, pendingAddDocs, storeVars, historyVars, subVars>>

handleAddExerciseToWorkout(exercise) ==
    /\ Mounted(LOG_WORKOUT)
    /\ IF NameInDraft(exercise.name)
       THEN /\ messageTimers < MaxTimers
            /\ message' = MsgDuplicate(exercise.name)
            /\ messageType' = "error"
            /\ messageTimers' = messageTimers + 1
            /\ UNCHANGED <<workoutExercises, showExerciseSelectionModal>>
       ELSE /\ workoutExercises' = Append(workoutExercises, NewDraftEntry(exercise))
            /\ message' = MsgNone
            /\ messageType' = ""
            /\ showExerciseSelectionModal' = FALSE
            /\ UNCHANGED messageTimers
    /\ UNCHANGED <<extVars, userId, currentPage, workoutDate, isSavingWorkout,
                   editVars, pendingAddDocs, storeVars, historyVars, subVars>>

\* setTimeout(() => { setMessage(''); setMessageType(''); }, 3000)
MessageTimeout ==
    /\ Mounted(LOG_WORKOUT)
    /\ messageTimers > 0
    /\ messageTimers' = messageTimers - 1
    /\ message' = MsgNone
    /\ messageType' = ""
    /\ UNCHANGED <<extVars, userId, currentPage, workoutDate, workoutExercises,
                   isSavingWorkout, showExerciseSelectionModal,
                   editVars, pendingAddDocs, storeVars, historyVars, subVars>>

ValuesFor(field) == IF field \in NumericFields THEN InputValues ELSE NoteValues

\* the numeric branch without its empty-string case
UpdatedFieldValueCoerced(field, value) ==
    IF field \in NumericFields
    THEN MathMax0(OrZero(parseFloat(value)))
    ELSE value

UpdatedFieldValue(field, value) ==
    IF field \in NumericFields
    THEN (IF value = "" THEN EmptyString ELSE MathMax0(OrZero(parseFloat(value))))
    ELSE value

UpdatedItem(item, field, value) ==
    [item EXCEPT ![field] = UpdatedFieldValue(field, value)]

handleUpdateExerciseDetails(index, field, value) ==
    /\ Mounted(LOG_WORKOUT)
    /\ editCount' = editCount + 1
    /\ workoutExercises' =
          [i \in 1..Len(workoutExercises) |->
              IF i = index THEN UpdatedItem(workoutExercises[i], field, value)
              ELSE workoutExercises[i]]
    /\ blankedWeight' =
          IF index \in 1..Len(workoutExercises) /\ field = "weight"
          THEN (IF value = ""
                THEN blankedWeight \cup {workoutExercises[index].exerciseName}
                ELSE blankedWeight \ {workoutExercises[index].exerciseName})
          ELSE blankedWeight
    /\ UNCHANGED <<extVars, userId, currentPage, workoutDate, message, messageType,
                   isSavingWorkout, showExerciseSelectionModal, messageTimers,
                   pendingAddDocs, storeVars, historyVars, subVars>>

handleRemoveExerciseFromWorkout(index) ==
    /\ Mounted(LOG_WORKOUT)
    /\ workoutExercises' = FilterOutIndex(workoutExercises, index)
    /\ blankedWeight' =
          IF index \in 1..Len(workoutExercises)
          THEN blankedWeight \ {workoutExercises[index].exerciseName}
          ELSE blankedWeight
    /\ UNCHANGED <<extVars, userId, currentPage, workoutDate, message, messageType,
                   isSavingWorkout, showExerciseSelectionModal, messageTimers,
                   editCount, pendingAddDocs, storeVars, historyVars, subVars>>

\* the field copied as it is, as in sets: ex.sets
NormalizedNumberRaw(v) == v

NormalizedNumber(v) == IF v = EmptyString THEN Number(0) ELSE parseFloatOfNumber(v)

PerformedExercise(ex) ==
    [exerciseName |-> ex.exerciseName,
     sets |-> NormalizedNumber(ex.sets),
     reps |-> NormalizedNumber(ex.reps),
     weight |-> NormalizedNumber(ex.weight),
     notes |-> ex.notes]

WorkoutData ==
    [userId |-> userId,
     date |-> DateAt(NoonTime(workoutDate)),
     exercisesPerformed |-> Map(workoutExercises, PerformedExercise)]

\* a validation that lets the empty draft through
DraftIsEmptyUnchecked == FALSE

\* if (workoutExercises.length === 0)
DraftIsEmpty == Len(workoutExercises) = 0

\* the handler up to its await: validation, then the addDoc call
handleSaveWorkout ==
    /\ Mounted(LOG_WORKOUT)
    /\ IF userId = NoUser
       THEN /\ message' = MsgNotAuthenticated
            /\ messageType' = "error"
            /\ UNCHANGED <<isSavingWorkout, pendingAddDocs>>
       ELSE IF DraftIsEmpty
       THEN /\ message' = MsgEmptyWorkout
            /\ messageType' = "error"
            /\ UNCHANGED <<isSavingWorkout, pendingAddDocs>>
       ELSE /\ isSavingWorkout' = TRUE
            /\ message' = MsgNone
            /\ messageType' = ""
            /\ pendingAddDocs' = Append(pendingAddDocs,
                  [user |-> userId, data |-> WorkoutData, mounted |-> TRUE])
    /\ UNCHANGED <<extVars, userId, currentPage, workoutDate, workoutExercises,
                   showExerciseSelectionModal, messageTimers,
                   editVars, storeVars, historyVars, subVars>>

\* the success path without its reset of the exercise list
DraftAfterSaveKept == workoutExercises

\* setWorkoutExercises([]) after a successful save
DraftAfterSave == <<>>

StoredDoc(id, data) ==
    [id |-> id, userId |-> data.userId, date |-> fromDate(data.date),
     exercisesPerformed |-> data.exercisesPerformed]

\* an insert that is skipped when a document with the same content is stored
addDocOnce(docs, id, data) ==
    IF \E k \in 1..Len(docs) : [docs[k] EXCEPT !.id = id] = StoredDoc(id, data)
    THEN docs
    ELSE Append(docs, StoredDoc(id, data))

\* addDoc(workoutsCollectionRef, workoutData): a new document under an id the
\* store assigns, whatever the collection holds
addDoc(docs, id, data) == Append(docs, StoredDoc(id, data))

\* addDoc's promise resolves: the document is in the collection, and the
\* handler resumes after its await (its setState calls reach the component
\* only while the instance that started it is mounted)
AddDocResolved(i) ==
    /\ i \in 1..Len(pendingAddDocs)
    /\ LET op == pendingAddDocs[i]
           docs == addDoc(workoutsStore[op.user], nextDocId, op.data)
       IN /\ CanNotify(op.user)
          /\ workoutsStore' = [workoutsStore EXCEPT ![op.user] = docs]
          /\ nextDocId' = nextDocId + 1
          /\ scheduled' = NotifyListeners(subs, scheduled, op.user, docs)
          /\ pendingAddDocs' = RemoveAt(pendingAddDocs, i)
          /\ IF op.mounted
             THEN /\ message' = MsgSaved
                  /\ messageType' = "success"
                  /\ workoutDate' = Today
                  /\ workoutExercises' = DraftAfterSave
                  /\ isSavingWorkout' = FALSE
                  /\ blankedWeight' = {}
                  /\ UNCHANGED <<showExerciseSelectionModal, messageTimers>>
             ELSE UNCHANGED <<logVars, blankedWeight>>
    /\ UNCHANGED <<extVars, userId, currentPage, editCount, historyVars, historySub, subs>>

\* a catch block that resets the exercise list as the success path does
DraftAfterFailureCleared == <<>>

\* the catch block and finally call no setter of the draft
DraftAfterFailure == workoutExercises

\* addDoc's promise rejects: nothing is written, the handler's catch runs
AddDocRejected(i) ==
    /\ i \in 1..Len(pendingAddDocs)
    /\ pendingAddDocs' = RemoveAt(pendingAddDocs, i)
    /\ IF pendingAddDocs[i].mounted
       THEN /\ message' = MsgSaveFailed
            /\ messageType' = "error"
            /\ isSavingWorkout' = FALSE
            /\ workoutExercises' = DraftAfterFailure
            /\ UNCHANGED <<workoutDate, showExerciseSelectionModal, messageTimers>>
       ELSE UNCHANGED logVars
    /\ UNCHANGED <<extVars, userId, currentPage, editVars, storeVars, historyVars, subVars>>

\* the store commits the document, but the client does not learn of it: the
\* promise of addDoc rejects and the handler's catch runs
AddDocAckLost(i) ==
    /\ i \in 1..Len(pendingAddDocs)
    /\ LET op == pendingAddDocs[i]
           docs == addDoc(workoutsStore[op.user], nextDocId, op.data)
       IN /\ CanNotify(op.user)
          /\ workoutsStore' = [workoutsStore EXCEPT ![op.user] = docs]
          /\ nextDocId' = nextDocId + 1
          /\ scheduled' = NotifyListeners(subs, scheduled, op.user, docs)
          /\ pendingAddDocs' = RemoveAt(pendingAddDocs, i)
          /\ IF op.mounted
             THEN /\ message' = MsgSaveFailed
                  /\ messageType' = "error"
                  /\ isSavingWorkout' = FALSE
                  /\ workoutExercises' = DraftAfterFailure
                  /\ UNCHANGED <<workoutDate, showExerciseSelectionModal, messageTimers>>
             ELSE UNCHANGED logVars
    /\ UNCHANGED <<extVars, userId, currentPage, editVars, historyVars, historySub, subs>>


(* ---------------------------- WorkoutHistory -------------------------- *)
\* date: doc.data().date ? doc.data().date.toDate() : null
FetchedWorkout(doc) ==
    [doc EXCEPT !.date = IF doc.date = NullDate THEN NullDate ELSE toDate(doc.date)]

\* (date?.getTime() || 0)
GetTimeOrZero(date) ==
    IF date = NullDate THEN 0
    ELSE IF date.time = 0 THEN 0 ELSE date.time

\* the sort's compare function: (a, b) => (b.date?.getTime() || 0) - (a.date?.getTime() || 0)
CompareByDateDesc(a, b) == GetTimeOrZero(b.date) - GetTimeOrZero(a.date)

\* Array.prototype.sort is stable: an element goes behind every element
\* that does not compare greater than it
InsertStable(sorted, x) ==
    LET k == Cardinality({ i \in 1..Len(sorted) : CompareByDateDesc(sorted[i], x) <= 0 })
    IN SubSeq(sorted, 1, k) \o <<x>> \o SubSeq(sorted, k + 1, Len(sorted))

RECURSIVE SortWorkouts(_)
SortWorkouts(arr) ==
    IF arr = <<>> THEN <<>>
    ELSE InsertStable(SortWorkouts(SubSeq(arr, 1, Len(arr) - 1)), arr[Len(arr)])

\* the list the snapshot callback builds: the mapped documents, sorted
FetchedWorkouts(docs) == SortWorkouts(Map(docs, FetchedWorkout))

\* a state update that patches the fetched records into the previous list
NextWorkoutsPatched(prev, fetched) == SortWorkouts(prev \o fetched)

\* setWorkouts(fetchedWorkouts): the state is replaced by the fetched list
NextWorkouts(prev, fetched) == fetched

\* a cleanup that leaves the listener subscribed
EffectCleanupForgotten(ss, s) == ss

\* the effect's cleanup: () => unsubscribe(); the SDK mutes the listener
EffectCleanup(ss, s) ==
    IF s = 0 THEN ss ELSE [ss EXCEPT ![s].muted = TRUE]

\* the effect body for user u, run on the subscriptions left by the cleanup
HistoryEffect(u, ss) ==
    IF u = NoUser
    THEN /\ subs' = ss
         /\ historySub' = 0
         /\ UNCHANGED <<scheduled, isLoading, fetchError>>
    ELSE /\ Len(ss) < MaxSubs
         /\ Len(scheduled) < MaxScheduled
         /\ isLoading' = TRUE
         /\ fetchError' = ""
         /\ subs' = Append(ss, [user |-> u, muted |-> FALSE, failed |-> FALSE])
         /\ historySub' = Len(ss) + 1
         /\ scheduled' = Append(scheduled, SnapshotEvent(Len(ss) + 1, workoutsStore[u]))

(* --------------------------- PersonalStatistics ----------------------- *)
\* a value in a condition: '', NaN and 0 are falsy
Truthy(v) == v # EmptyString /\ v # NaN /\ v # Number(0)

\* all exercises of all workouts, in the order the nested forEach visits them
RECURSIVE VisitedExercises(_)
VisitedExercises(ws) ==
    IF ws = <<>> THEN <<>>
    ELSE Head(ws).exercisesPerformed \o VisitedExercises(Tail(ws))

\* totalExercises += workout.exercisesPerformed.length
RECURSIVE TotalExercises(_)
TotalExercises(ws) ==
    IF ws = <<>> THEN 0
    ELSE Len(Head(ws).exercisesPerformed) + TotalExercises(Tail(ws))

\* a volume that multiplies the reps in
VolumeOfWithReps(exercise) ==
    IF /\ Truthy(exercise.weight) /\ IsNumber(exercise.weight)
       /\ Truthy(exercise.sets) /\ IsNumber(exercise.sets)
    THEN exercise.weight.num * exercise.sets.num * exercise.reps.num
    ELSE 0

\* what one exercise adds to totalVolume
VolumeOf(exercise) ==
    IF /\ Truthy(exercise.weight) /\ IsNumber(exercise.weight)
       /\ Truthy(exercise.sets) /\ IsNumber(exercise.sets)
    THEN exercise.weight.num * exercise.sets.num
    ELSE 0

\* a volume that counts the exercise visited last only
TotalVolumeOfLast(exercises) ==
    IF exercises = <<>> THEN 0
    ELSE VolumeOf(exercises[Len(exercises)])

RECURSIVE TotalVolume(_)
TotalVolume(exercises) ==
    IF exercises = <<>> THEN 0
    ELSE VolumeOf(Head(exercises)) + TotalVolume(Tail(exercises))

\* exercise.exerciseName || 'Unknown Exercise'
NameOrUnknown(name) == IF name = "" THEN UnknownExercise ELSE name

\* exerciseCounts as its own properties in creation order, each with its count:
\* exerciseCounts[name] = (exerciseCounts[name] || 0) + 1
CountInto(counts, name) ==
    IF \E k \in 1..Len(counts) : counts[k].key = name
    THEN [k \in 1..Len(counts) |->
            IF counts[k].key = name
            THEN [counts[k] EXCEPT !.count = counts[k].count + 1]
            ELSE counts[k]]
    ELSE Append(counts, [key |-> name, count |-> 1])

RECURSIVE ExerciseCounts(_)
ExerciseCounts(exercises) ==
    IF exercises = <<>> THEN <<>>
    ELSE CountInto(ExerciseCounts(SubSeq(exercises, 1, Len(exercises) - 1)),
                   NameOrUnknown(exercises[Len(exercises)].exerciseName))

\* the number a property name is the canonical decimal form of, -1 for a
\* name that is no integer index
IntegerIndex(name) ==
    CASE name = "5" -> 5
      [] name = "10" -> 10
      [] OTHER -> -1

\* the integer-index entries of counts in ascending numeric order
RECURSIVE IndexEntriesAscending(_)
IndexEntriesAscending(counts) ==
    LET idx == { k \in 1..Len(counts) : IntegerIndex(counts[k].key) >= 0 }
    IN IF idx = {} THEN <<>>
       ELSE LET m == CHOOSE k \in idx :
                        \A j \in idx : IntegerIndex(counts[k].key) <= IntegerIndex(counts[j].key)
            IN <<counts[m]>> \o
               IndexEntriesAscending([k \in 1..(Len(counts) - 1) |->
                                         IF k < m THEN counts[k] ELSE counts[k + 1]])

\* for (const exerciseName in exerciseCounts): integer-index names first, in
\* ascending numeric order, then the other names in creation order
ForIn(counts) ==
    IndexEntriesAscending(counts) \o
    SelectSeq(counts, LAMBDA c : IntegerIndex(c.key) < 0)

\* the loop over exerciseCounts that keeps the first name with the highest count
RECURSIVE MostFrequentFrom(_, _, _)
MostFrequentFrom(entries, mostFrequent, maxCount) ==
    IF entries = <<>> THEN mostFrequent
    ELSE IF Head(entries).count > maxCount
    THEN MostFrequentFrom(Tail(entries), Head(entries).key, Head(entries).count)
    ELSE MostFrequentFrom(Tail(entries), mostFrequent, maxCount)

MostFrequent(ws) ==
    MostFrequentFrom(ForIn(ExerciseCounts(VisitedExercises(ws))), NotAvailable, 0)

\* an average without the guard for the empty list
AverageExercisesUnguarded(ws) == Quotient(TotalExercises(ws), Len(ws) + 1)

\* workouts.length > 0 ? (totalExercises / workouts.length) : 0
AverageExercises(ws) ==
    IF Len(ws) > 0 THEN Quotient(TotalExercises(ws), Len(ws)) ELSE Zero

\* a total that counts the workouts instead of their exercises
TotalExercisesLoggedAsWorkouts(ws) == Len(ws)

TotalExercisesLogged(ws) == TotalExercises(ws)

ComputedStats(ws) ==
    [totalWorkouts |-> Len(ws),
     totalExercisesLogged |-> TotalExercisesLogged(ws),
     totalVolumeLifted |-> TotalVolume(VisitedExercises(ws)),
     mostFrequentExercise |-> MostFrequent(ws),
     averageExercisesPerWorkout |-> AverageExercises(ws)]

\* a stats effect that computes once and keeps what it has computed
StatsEffectKeepsFirst(ws, loading, prev) ==
    IF Len(ws) = 0 /\ ~loading THEN StatsInitial
    ELSE IF loading \/ prev # StatsInitial THEN prev
    ELSE ComputedStats(ws)

\* the stats effect, run after a render in which workouts or isLoading changed
StatsEffect(ws, loading, prev) ==
    IF Len(ws) = 0 /\ ~loading THEN StatsInitial
    ELSE IF loading THEN prev
    ELSE ComputedStats(ws)

MsgStatsFetchFailed == "Failed to load workout data. Please try again."

\* the fetch effect of PersonalStatistics for user u; without a user it returns
\* early and fetchError keeps the value prevError it had
StatsFetchEffect(u, ss, prevError) ==
    IF u = NoUser
    THEN /\ subs' = ss
         /\ historySub' = 0
         /\ fetchError' = prevError
         /\ UNCHANGED <<scheduled, isLoading>>
    ELSE /\ Len(ss) < MaxSubs
         /\ Len(scheduled) < MaxScheduled
         /\ isLoading' = TRUE
         /\ fetchError' = NoFetchError
         /\ subs' = Append(ss, [user |-> u, muted |-> FALSE, failed |-> FALSE])
         /\ historySub' = Len(ss) + 1
         /\ scheduled' = Append(scheduled, SnapshotEvent(Len(ss) + 1, workoutsStore[u]))

\* a scheduled listener callback runs; the SDK drops it when its listener
\* has been unsubscribed in the meantime
DeliverCallback ==
    /\ Len(scheduled) > 0
    /\ scheduled' = Tail(scheduled)
    /\ LET ev == Head(scheduled)
       IN IF subs[ev.sub].muted
          THEN UNCHANGED historyVars
          ELSE IF ev.kind = "snapshot"
          THEN /\ workouts' = NextWorkouts(workouts, FetchedWorkouts(ev.docs))
               /\ isLoading' = FALSE
               /\ UNCHANGED fetchError
          ELSE /\ fetchError' = (IF Mounted(PERSONAL_STATS) THEN MsgStatsFetchFailed
                                 ELSE MsgFetchFailed)
               /\ isLoading' = FALSE
               /\ UNCHANGED workouts
    /\ stats' = IF Mounted(PERSONAL_STATS) THEN StatsEffect(workouts', isLoading', stats)
                ELSE stats
    /\ UNCHANGED <<expandedWorkoutId, identityVars, catalogVars, formVars, deleteVars>>
    /\ UNCHANGED <<userId, currentPage, logVars, editVars, pendingAddDocs,
                   storeVars, historySub, subs>>

\* the store ends a listener with an error (network, permission, quota)
ListenerError(s) ==
    /\ s \in 1..Len(subs)
    /\ ~subs[s].muted
    /\ ~subs[s].failed
    /\ Len(scheduled) < MaxScheduled
    /\ subs' = [subs EXCEPT ![s].failed = TRUE]
    /\ scheduled' = Append(scheduled, ErrorEvent(s))
    /\ UNCHANGED <<extVars, userId, currentPage, logVars, editVars, pendingAddDocs,
                   storeVars, historyVars, historySub>>

(* ------------------------- other sessions' writes --------------------- *)
RemoteDates == {NullDate, Timestamp(NoonTime(-1)), Timestamp(NoonTime(Today))}
RemoteExercises ==
    << [exerciseName |-> "Squat", sets |-> Number(3), reps |-> Number(5),
        weight |-> Number(10), notes |-> ""] >>

\* a document written to user u's collection by another session of u
RemoteWrite(u, date) ==
    /\ CanNotify(u)
    /\ LET docs == Append(workoutsStore[u],
                      [id |-> nextDocId, userId |-> u, date |-> date,
                       exercisesPerformed |-> RemoteExercises])
       IN /\ workoutsStore' = [workoutsStore EXCEPT ![u] = docs]
          /\ scheduled' = NotifyListeners(subs, scheduled, u, docs)
    /\ nextDocId' = nextDocId + 1
    /\ UNCHANGED <<extVars, userId, currentPage, logVars, editVars, pendingAddDocs,
                   historyVars, historySub, subs>>

\* a document deleted from user u's collection by another session of u
RemoteDelete(u, i) ==
    /\ i \in 1..Len(workoutsStore[u])
    /\ CanNotify(u)
    /\ LET docs == RemoveAt(workoutsStore[u], i)
       IN /\ workoutsStore' = [workoutsStore EXCEPT ![u] = docs]
          /\ scheduled' = NotifyListeners(subs, scheduled, u, docs)
    /\ UNCHANGED <<extVars, userId, currentPage, logVars, editVars, pendingAddDocs,
                   nextDocId, historyVars, historySub, subs>>

(* ------------------------ routing and identity ------------------------ *)
FormPages == {ADD_EXERCISE, SET_USERNAME, EXERCISE_LIST}

\* useState initial values of AddExercise, SetUsername and ExerciseList
FormsInitial ==
    /\ exerciseName' = <<>>
    /\ inputUsername' = <<>>
    /\ pageMessage' = MsgNone
    /\ pageMessageType' = ""
    /\ pageTimers' = 0
    /\ isSaving' = FALSE
    /\ showConfirmModal' = FALSE
    /\ exerciseToDeleteId' = NoExerciseId
    /\ exerciseToDeleteName' = ""

Unmounted(op) == [op EXCEPT !.mounted = FALSE]

\* setCurrentPage: a page is entered from home and left through onBack
setCurrentPage(page) ==
    /\ page # currentPage
    /\ (currentPage = HOME \/ page = HOME)
    /\ currentPage' = page
    /\ IF currentPage = LOG_WORKOUT
       THEN /\ LogWorkoutInitial
            /\ blankedWeight' = {}
            /\ pendingAddDocs' = Map(pendingAddDocs, Unmounted)
       ELSE UNCHANGED <<logVars, blankedWeight, pendingAddDocs>>
    /\ IF page = WORKOUT_HISTORY
       THEN /\ HistoryEffect(userId, subs)
            /\ UNCHANGED workouts
       ELSE IF page = PERSONAL_STATS
       THEN /\ StatsFetchEffect(userId, subs, NoFetchError)
            /\ UNCHANGED workouts
       ELSE IF currentPage \in {WORKOUT_HISTORY, PERSONAL_STATS}
       THEN /\ subs' = EffectCleanup(subs, historySub)
            /\ historySub' = 0
            /\ WorkoutHistoryInitial
            /\ UNCHANGED scheduled
       ELSE UNCHANGED <<historyVars, subVars>>
    /\ stats' = StatsInitial
    /\ expandedWorkoutId' = NoWorkoutId
    /\ IF currentPage \in FormPages
       THEN /\ FormsInitial
            /\ pendingOps' = Map(pendingOps, Unmounted)
       ELSE UNCHANGED <<formVars, deleteVars>>
    /\ UNCHANGED <<identityVars, catalogVars, userId, editCount, storeVars>>

\* onAuthStateChanged callback up to its await: setUserId, and for a user
\* the getDoc of the profile document; the fetch effect of the mounted screen
\* depends on userId, so its cleanup and its body run again
AuthStateChanged(u) ==
    /\ u # userId
    /\ userId' = u
    /\ IF Mounted(WORKOUT_HISTORY)
       THEN /\ HistoryEffect(u, EffectCleanup(subs, historySub))
            /\ UNCHANGED workouts
       ELSE IF Mounted(PERSONAL_STATS)
       THEN /\ StatsFetchEffect(u, EffectCleanup(subs, historySub), fetchError)
            /\ UNCHANGED workouts
       ELSE UNCHANGED <<historyVars, subVars>>
    /\ IF u = NoUser
       THEN /\ username' = NoUsername
            /\ UNCHANGED profileFetches
       ELSE /\ profileFetches' = Append(profileFetches, u)
            /\ UNCHANGED username
    /\ UNCHANGED <<stats, expandedWorkoutId, catalogVars, formVars, deleteVars>>
    /\ UNCHANGED <<currentPage, logVars, editVars, pendingAddDocs, storeVars>>

(* ---------------------- WorkoutHistory: its controls ------------------ *)
\* setExpandedWorkoutId(prevId => (prevId === workoutId ? null : workoutId))
toggleWorkoutDetails(workoutId) ==
    /\ Mounted(WORKOUT_HISTORY)
    /\ expandedWorkoutId' = IF expandedWorkoutId = workoutId THEN NoWorkoutId ELSE workoutId
    /\ UNCHANGED <<userId, currentPage, logVars, editVars, pendingAddDocs, storeVars,
                   historyVars, subVars, stats>>
    /\ UNCHANGED <<identityVars, catalogVars, formVars, deleteVars>>

(* ----------------------- provider: the profile fetch ------------------ *)
\* the onAuthStateChanged callback resumes after its await of getDoc:
\* setUsername(userData.username) for a profile with a username, else null
ProfileFetched(i) ==
    /\ i \in 1..Len(profileFetches)
    /\ username' = profileStore[profileFetches[i]]
    /\ profileFetches' = RemoveAt(profileFetches, i)
    /\ UNCHANGED <<nonFormVars, catalogVars, formVars, deleteVars>>

\* getDoc fails: the catch block sets the username to null
ProfileFetchFailed(i) ==
    /\ i \in 1..Len(profileFetches)
    /\ username' = NoUsername
    /\ profileFetches' = RemoveAt(profileFetches, i)
    /\ UNCHANGED <<nonFormVars, catalogVars, formVars, deleteVars>>

(* ------------------------- text inputs and trim ----------------------- *)
\* the text of an input element, as a sequence of pieces: a piece is one blank
\* or a word without blanks
Blank == " "
NameTexts == { <<>>, <<Blank, Blank>>, <<Blank, "Squat", Blank>>, <<"Bench">> }
UsernameTexts == { <<>>, <<Blank>>, <<Blank, "sam">> }

\* String.prototype.trim
RECURSIVE trimStart(_)
trimStart(text) ==
    IF text # <<>> /\ Head(text) = Blank THEN trimStart(Tail(text)) ELSE text
RECURSIVE trimEnd(_)
trimEnd(text) ==
    IF text # <<>> /\ text[Len(text)] = Blank
    THEN trimEnd(SubSeq(text, 1, Len(text) - 1)) ELSE text
trim(text) == trimEnd(trimStart(text))

\* the string a text is
RECURSIVE StringOf(_)
StringOf(text) == IF text = <<>> THEN "" ELSE Head(text) \o StringOf(Tail(text))

(* ----------------------------- form messages -------------------------- *)
MsgEmptyExerciseName == "Exercise name cannot be empty."
MsgAddNotAuthenticated == "User not authenticated. Please wait."
MsgExerciseAdded == "Exercise added successfully!"
MsgAddFailed == "Failed to add exercise. Please try again."
MsgEmptyUsername == "Username cannot be empty."
MsgAuthError == "Authentication error. Please refresh the page."
MsgUsernameSet == "Username set successfully!"
MsgSetUsernameFailed == "Failed to set username. Please try again."
MsgCannotDelete == "Cannot delete: Missing exercise ID, user ID, or app ID."
MsgDeleted(name) == "'" \o name \o "' deleted successfully!"
MsgDeleteFailed(name) == "Failed to delete '" \o name \o "'. Please try again."

\* a store call of a form handler that awaits its promise: the arguments of
\* the call and the values the handler's closure holds
PendingOp(kind, u, id, name, closureType) ==
    [kind |-> kind, user |-> u, id |-> id, name |-> name,
     messageType |-> closureType, mounted |-> TRUE]

(* ------------------------------ AddExercise --------------------------- *)
\* onChange={(e) => setExerciseName(e.target.value)}
setExerciseName(text) ==
    /\ Mounted(ADD_EXERCISE)
    /\ exerciseName' = text
    /\ UNCHANGED <<inputUsername, pageMessage, pageMessageType, pageTimers, isSaving,
                   pendingOps>>
    /\ UNCHANGED <<nonFormVars, identityVars, catalogVars, deleteVars>>

\* an emptiness test without the trim
NameIsEmptyUntrimmed(text) == text = <<>>

\* if (!exerciseName.trim())
NameIsEmpty(text) == trim(text) = <<>>

\* a guard that lets the missing user through
NoUserIdIgnored(u) == FALSE

\* if (!userId)
NoUserId(u) == u = NoUser

\* the handler up to its await: validation, then the addDoc call
AddExercise_handleSubmit ==
    /\ Mounted(ADD_EXERCISE)
    /\ IF NameIsEmpty(exerciseName)
       THEN /\ pageMessage' = MsgEmptyExerciseName
            /\ pageMessageType' = "error"
            /\ UNCHANGED <<isSaving, pendingOps>>
       ELSE IF NoUserId(userId)
       THEN /\ pageMessage' = MsgAddNotAuthenticated
            /\ pageMessageType' = "error"
            /\ UNCHANGED <<isSaving, pendingOps>>
       ELSE /\ isSaving' = TRUE
            /\ pageMessage' = MsgNone
            /\ pageMessageType' = ""
            /\ pendingOps' = Append(pendingOps,
                  PendingOp("addDoc", userId, NoExerciseId,
                            StringOf(trim(exerciseName)), pageMessageType))
    /\ UNCHANGED <<exerciseName, inputUsername, pageTimers>>
    /\ UNCHANGED <<nonFormVars, identityVars, catalogVars, deleteVars>>

\* the document addDoc stores; the description input is left empty
ExerciseDoc(id, name) == [id |-> id, name |-> name, description |-> ""]

\* addDoc's promise resolves: the document is in the exercises collection,
\* and the handler resumes after its await
ExerciseAddResolved(i) ==
    /\ i \in 1..Len(pendingOps)
    /\ pendingOps[i].kind = "addDoc"
    /\ LET op == pendingOps[i]
       IN /\ exercisesStore' =
                [exercisesStore EXCEPT ![op.user] =
                    Append(@, ExerciseDoc(nextExerciseId, op.name))]
          /\ nextExerciseId' = nextExerciseId + 1
          /\ IF op.mounted
             THEN /\ pageMessage' = MsgExerciseAdded
                  /\ pageMessageType' = "success"
                  /\ exerciseName' = <<>>
                  /\ isSaving' = FALSE
             ELSE UNCHANGED <<pageMessage, pageMessageType, exerciseName, isSaving>>
    /\ pendingOps' = RemoveAt(pendingOps, i)
    /\ UNCHANGED <<inputUsername, pageTimers, profileStore>>
    /\ UNCHANGED <<nonFormVars, identityVars, deleteVars>>

\* addDoc's promise rejects: the catch block, then finally
ExerciseAddRejected(i) ==
    /\ i \in 1..Len(pendingOps)
    /\ pendingOps[i].kind = "addDoc"
    /\ IF pendingOps[i].mounted
       THEN /\ pageMessage' = MsgAddFailed
            /\ pageMessageType' = "error"
            /\ isSaving' = FALSE
       ELSE UNCHANGED <<pageMessage, pageMessageType, isSaving>>
    /\ pendingOps' = RemoveAt(pendingOps, i)
    /\ UNCHANGED <<exerciseName, inputUsername, pageTimers>>
    /\ UNCHANGED <<nonFormVars, identityVars, catalogVars, deleteVars>>

(* ------------------------------ SetUsername --------------------------- *)
\* onChange={(e) => setInputUsername(e.target.value)}
setInputUsername(text) ==
    /\ Mounted(SET_USERNAME)
    /\ inputUsername' = text
    /\ UNCHANGED <<exerciseName, pageMessage, pageMessageType, pageTimers, isSaving,
                   pendingOps>>
    /\ UNCHANGED <<nonFormVars, identityVars, catalogVars, deleteVars>>

\* the handler up to its await: validation, then the setDoc call; the
\* handler's closure keeps the messageType of the render it was created in
SetUsername_handleSubmit ==
    /\ Mounted(SET_USERNAME)
    /\ IF NameIsEmpty(inputUsername)
       THEN /\ pageMessage' = MsgEmptyUsername
            /\ pageMessageType' = "error"
            /\ UNCHANGED <<isSaving, pendingOps>>
       ELSE IF NoUserId(userId)
       THEN /\ pageMessage' = MsgAuthError
            /\ pageMessageType' = "error"
            /\ UNCHANGED <<isSaving, pendingOps>>
       ELSE /\ isSaving' = TRUE
            /\ pageMessage' = MsgNone
            /\ pageMessageType' = ""
            /\ pendingOps' = Append(pendingOps,
                  PendingOp("setDoc", userId, NoExerciseId,
                            StringOf(trim(inputUsername)), pageMessageType))
    /\ UNCHANGED <<exerciseName, inputUsername, pageTimers>>
    /\ UNCHANGED <<nonFormVars, identityVars, catalogVars, deleteVars>>

\* finally: if (messageType === 'error') setTimeout(...), with the closure's
\* messageType
TimersAfterSetUsername(op) ==
    IF op.messageType = "error" THEN pageTimers + 1 ELSE pageTimers

\* setDoc's promise resolves: the profile document holds the username, and
\* the handler resumes: success message, setContextUsername, finally
SetDocResolved(i) ==
    /\ i \in 1..Len(pendingOps)
    /\ pendingOps[i].kind = "setDoc"
    /\ LET op == pendingOps[i]
       IN /\ profileStore' = [profileStore EXCEPT ![op.user] = String(op.name)]
          /\ username' = String(op.name)
          /\ IF op.mounted
             THEN /\ TimersAfterSetUsername(op) <= MaxTimers
                  /\ pageMessage' = MsgUsernameSet
                  /\ pageMessageType' = "success"
                  /\ isSaving' = FALSE
                  /\ pageTimers' = TimersAfterSetUsername(op)
             ELSE UNCHANGED <<pageMessage, pageMessageType, isSaving, pageTimers>>
    /\ pendingOps' = RemoveAt(pendingOps, i)
    /\ UNCHANGED <<exerciseName, inputUsername, profileFetches, exercisesStore,
                   nextExerciseId>>
    /\ UNCHANGED <<nonFormVars, deleteVars>>

\* setDoc's promise rejects: the catch block, then finally
SetDocRejected(i) ==
    /\ i \in 1..Len(pendingOps)
    /\ pendingOps[i].kind = "setDoc"
    /\ LET op == pendingOps[i]
       IN IF op.mounted
          THEN /\ TimersAfterSetUsername(op) <= MaxTimers
               /\ pageMessage' = MsgSetUsernameFailed
               /\ pageMessageType' = "error"
               /\ isSaving' = FALSE
               /\ pageTimers' = TimersAfterSetUsername(op)
          ELSE UNCHANGED <<pageMessage, pageMessageType, isSaving, pageTimers>>
    /\ pendingOps' = RemoveAt(pendingOps, i)
    /\ UNCHANGED <<exerciseName, inputUsername>>
    /\ UNCHANGED <<nonFormVars, identityVars, catalogVars, deleteVars>>

(* ------------------------------ ExerciseList -------------------------- *)
\* onClick={() => handleDeleteClick(exercise.id, exercise.name)}
handleDeleteClick(id, name) ==
    /\ Mounted(EXERCISE_LIST)
    /\ exerciseToDeleteId' = id
    /\ exerciseToDeleteName' = name
    /\ showConfirmModal' = TRUE
    /\ UNCHANGED <<nonFormVars, identityVars, catalogVars, formVars>>

\* the handler up to its await: the guard, then the deleteDoc call
confirmDelete ==
    /\ Mounted(EXERCISE_LIST)
    /\ IF exerciseToDeleteId = NoExerciseId \/ NoUserId(userId)
       THEN /\ pageMessage' = MsgCannotDelete
            /\ pageMessageType' = "error"
            /\ showConfirmModal' = FALSE
            /\ UNCHANGED pendingOps
       ELSE /\ pendingOps' = Append(pendingOps,
                  PendingOp("deleteDoc", userId, exerciseToDeleteId,
                            exerciseToDeleteName, pageMessageType))
            /\ UNCHANGED <<pageMessage, pageMessageType, showConfirmModal>>
    /\ UNCHANGED <<exerciseName, inputUsername, pageTimers, isSaving,
                   exerciseToDeleteId, exerciseToDeleteName>>
    /\ UNCHANGED <<nonFormVars, identityVars, catalogVars>>

\* a deleteDoc that takes the workouts naming the exercise with it
deleteDocCascading(u, id) ==
    LET names == { exercisesStore[u][k].name :
                      k \in { j \in 1..Len(exercisesStore[u]) : exercisesStore[u][j].id = id } }
    IN [exercises |-> SelectSeq(exercisesStore[u], LAMBDA d : d.id # id),
        workouts |-> SelectSeq(workoutsStore[u],
                        LAMBDA w : ~\E k \in 1..Len(w.exercisesPerformed) :
                                       w.exercisesPerformed[k].exerciseName \in names)]

\* deleteDoc(doc(db, '.../users/{userId}/exercises', id)): the document leaves
\* the exercises collection; the user's other collections are not written
deleteDoc(u, id) ==
    [exercises |-> SelectSeq(exercisesStore[u], LAMBDA d : d.id # id),
     workouts |-> workoutsStore[u]]

\* deleteDoc's promise resolves, and the handler resumes: success message,
\* the pending delete is cleared, finally
DeleteDocResolved(i) ==
    /\ i \in 1..Len(pendingOps)
    /\ pendingOps[i].kind = "deleteDoc"
    /\ LET op == pendingOps[i]
       IN /\ exercisesStore' = [exercisesStore EXCEPT ![op.user] = deleteDoc(op.user, op.id).exercises]
          /\ workoutsStore' = [workoutsStore EXCEPT ![op.user] = deleteDoc(op.user, op.id).workouts]
          /\ IF op.mounted
             THEN /\ pageTimers < MaxTimers
                  /\ pageMessage' = MsgDeleted(op.name)
                  /\ pageMessageType' = "success"
                  /\ exerciseToDeleteId' = NoExerciseId
                  /\ exerciseToDeleteName' = ""
                  /\ showConfirmModal' = FALSE
                  /\ pageTimers' = pageTimers + 1
             ELSE UNCHANGED <<pageMessage, pageMessageType, pageTimers, deleteVars>>
    /\ pendingOps' = RemoveAt(pendingOps, i)
    /\ UNCHANGED <<exerciseName, inputUsername, isSaving, profileStore, nextExerciseId>>
    /\ UNCHANGED <<userId, currentPage, logVars, editVars, pendingAddDocs, nextDocId,
                   historyVars, subVars, stats, expandedWorkoutId, identityVars>>

\* deleteDoc's promise rejects: the catch block, then finally
DeleteDocRejected(i) ==
    /\ i \in 1..Len(pendingOps)
    /\ pendingOps[i].kind = "deleteDoc"
    /\ LET op == pendingOps[i]
       IN IF op.mounted
          THEN /\ pageTimers < MaxTimers
               /\ pageMessage' = MsgDeleteFailed(op.name)
               /\ pageMessageType' = "error"
               /\ showConfirmModal' = FALSE
               /\ pageTimers' = pageTimers + 1
          ELSE UNCHANGED <<pageMessage, pageMessageType, pageTimers, showConfirmModal>>
    /\ pendingOps' = RemoveAt(pendingOps, i)
    /\ UNCHANGED <<exerciseName, inputUsername, isSaving, exerciseToDeleteId,
                   exerciseToDeleteName>>
    /\ UNCHANGED <<nonFormVars, identityVars, catalogVars>>

\* a cancel that closes the modal and keeps the pending delete
cancelDeleteKeepsTarget ==
    /\ Mounted(EXERCISE_LIST)
    /\ showConfirmModal' = FALSE
    /\ UNCHANGED <<exerciseToDeleteId, exerciseToDeleteName>>
    /\ UNCHANGED <<nonFormVars, identityVars, catalogVars, formVars>>

cancelDelete ==
    /\ Mounted(EXERCISE_LIST)
    /\ showConfirmModal' = FALSE
    /\ exerciseToDeleteId' = NoExerciseId
    /\ exerciseToDeleteName' = ""
    /\ UNCHANGED <<nonFormVars, identityVars, catalogVars, formVars>>

\* setTimeout(() => { setMessage(''); setMessageType(''); }, ...) of
\* SetUsername (3000) and ExerciseList (4000)
PageMessageTimeout ==
    /\ currentPage \in FormPages
    /\ pageTimers > 0
    /\ pageTimers' = pageTimers - 1
    /\ pageMessage' = MsgNone
    /\ pageMessageType' = ""
    /\ UNCHANGED <<exerciseName, inputUsername, isSaving, pendingOps>>
    /\ UNCHANGED <<nonFormVars, identityVars, catalogVars, deleteVars>>

(* ------------------- what the rendered controls allow ----------------- *)
\* AppContent renders a page only for a resolved user who has a username
PageRendered == userId # NoUser /\ username # NoUsername

\* a submit button that is disabled for the empty draft only
SubmitDisabledEmptyOnly == Len(workoutExercises) = 0

\* <button type="submit" disabled={isSavingWorkout || workoutExercises.length === 0}>
SubmitDisabled == isSavingWorkout \/ Len(workoutExercises) = 0

\* the modal's Add button: disabled={workoutExercises.some(item => item.exerciseName === exercise.name)}
AddDisabled(exercise) == NameInDraft(exercise.name)

\* the inputs and the Remove button exist once per draft entry
EntryRendered(index) == index \in 1..Len(workoutExercises)

(* --------------------------- specifications --------------------------- *)
\* the validation of handleSaveWorkout passes
SubmitAccepted == userId # NoUser /\ Len(workoutExercises) # 0

\* fewer than cap documents were created or are being created
WithinDocs(cap) == nextDocId + Len(pendingAddDocs) <= cap

\* fewer than MaxOps field updates and accepted submits were made
WithinOps == editCount + Len(pendingAddDocs) + nextDocId <= MaxOps

\* the LogWorkout component on its own, mounted for the rest of the run:
\* every handler may be called in every state, with any argument
Next ==
    \/ AuthStateChanged("u1")
    \/ setCurrentPage(LOG_WORKOUT)
    \/ \E exercise \in ExerciseDefs : handleAddExerciseToWorkout(exercise)
    \/ MessageTimeout
    \/ \E index \in 1..Cardinality(ExerciseNames), field \in Fields :
          \E value \in ValuesFor(field) :
              WithinOps /\ handleUpdateExerciseDetails(index, field, value)
    \/ \E index \in 1..Cardinality(ExerciseNames) : handleRemoveExerciseFromWorkout(index)
    \/ (SubmitAccepted => WithinOps) /\ handleSaveWorkout
    \/ \E i \in 1..Len(pendingAddDocs) : AddDocResolved(i)
    \/ \E i \in 1..Len(pendingAddDocs) : AddDocRejected(i)

Spec == Init /\ [][Next]_vars

\* onAuthStateChanged reports the user the session signs in as
SignIn(u) == userId = NoUser /\ AuthStateChanged(u)

\* onAuthStateChanged reports another user for the running session
AccountChange(u) == userId # NoUser /\ AuthStateChanged(u)

\* the home page's buttons and a page's Back to Home button
NavigateClick(page) == PageRendered /\ setCurrentPage(page)

\* the date input of the form
DateChange(day) == PageRendered /\ setWorkoutDate(day)

\* "Add Exercise to Workout" opens the modal, its Close and Done close it
ModalClick(open) ==
    /\ PageRendered
    /\ open = ~showExerciseSelectionModal
    /\ setShowExerciseSelectionModal(open)

\* the Add button of a catalog entry in the open modal
AddClick(exercise) ==
    /\ PageRendered
    /\ showExerciseSelectionModal
    /\ ~AddDisabled(exercise)
    /\ handleAddExerciseToWorkout(exercise)

\* the Remove button of a draft entry
RemoveClick(index) ==
    /\ PageRendered
    /\ EntryRendered(index)
    /\ handleRemoveExerciseFromWorkout(index)

\* the form's submit button
SubmitClick ==
    /\ PageRendered
    /\ ~SubmitDisabled
    /\ handleSaveWorkout

\* the application as rendered: a handler runs through a control that is
\* on the page and not disabled; pages are entered and left
NextUI ==
    \/ \E u \in Users : SignIn(u)
    \/ \E i \in 1..Len(profileFetches) : ProfileFetched(i)
    \/ \E i \in 1..Len(profileFetches) : ProfileFetchFailed(i)
    \/ \E page \in {HOME, LOG_WORKOUT} : NavigateClick(page)
    \/ \E day \in Days : DateChange(day)
    \/ \E open \in BOOLEAN : ModalClick(open)
    \/ \E exercise \in ExerciseDefs : AddClick(exercise)
    \/ \E index \in 1..Cardinality(ExerciseNames) : RemoveClick(index)
    \/ WithinDocs(MaxDocsUI) /\ SubmitClick
    \/ \E i \in 1..Len(pendingAddDocs) : AddDocResolved(i)
    \/ \E i \in 1..Len(pendingAddDocs) : AddDocRejected(i)

SpecUI == Init /\ [][NextUI]_vars

\* the WorkoutHistory component, its subscription and the collection it mirrors
NextSync ==
    \/ SignIn("u1")
    \/ AccountChange("u2")
    \/ \E page \in {HOME, WORKOUT_HISTORY} : setCurrentPage(page)
    \/ DeliverCallback
    \/ \E s \in 1..Len(subs) : ListenerError(s)
    \/ \E date \in RemoteDates :
          userId # NoUser /\ WithinDocs(MaxRemoteDocs) /\ RemoteWrite(userId, date)
    \/ \E i \in 1..MaxRemoteDocs : userId # NoUser /\ RemoteDelete(userId, i)

SpecSync == Init /\ [][NextSync]_vars

\* the useState initial values of every screen component, with no store call
\* awaiting its promise
ScreensInitial ==
    /\ stats = StatsInitial
    /\ workoutDate = Today
    /\ workoutExercises = <<>>
    /\ message = MsgNone
    /\ messageType = ""
    /\ isSavingWorkout = FALSE
    /\ showExerciseSelectionModal = FALSE
    /\ messageTimers = 0
    /\ editCount = 0
    /\ blankedWeight = {}
    /\ pendingAddDocs = <<>>
    /\ expandedWorkoutId = NoWorkoutId
    /\ pendingOps = <<>>
    /\ exerciseName = <<>>
    /\ inputUsername = <<>>
    /\ pageMessage = MsgNone
    /\ pageMessageType = ""
    /\ pageTimers = 0
    /\ isSaving = FALSE
    /\ showConfirmModal = FALSE
    /\ exerciseToDeleteId = NoExerciseId
    /\ exerciseToDeleteName = ""

\* the statistics screen of a signed-in user who has a username, opened on a
\* collection that holds up to MaxStatRecords documents
StatUser == "u1"
StatDocs(bodies) ==
    [i \in 1..Len(bodies) |->
        [id |-> i, userId |-> StatUser, date |-> Timestamp(NoonTime(Today)),
         exercisesPerformed |-> bodies[i]]]

InitStats ==
    /\ userId = StatUser
    /\ username = String("sam")
    /\ profileStore = ProfilesAtStart
    /\ profileFetches = <<>>
    /\ currentPage = PERSONAL_STATS
    /\ \E n \in 0..MaxStatRecords : \E bodies \in [1..n -> StatLists] :
          /\ workoutsStore = [u \in Users |-> IF u = StatUser THEN StatDocs(bodies) ELSE <<>>]
          /\ nextDocId = n + 1
          /\ scheduled = <<SnapshotEvent(1, StatDocs(bodies))>>
    /\ subs = <<[user |-> StatUser, muted |-> FALSE, failed |-> FALSE]>>
    /\ historySub = 1
    /\ workouts = <<>>
    /\ isLoading = TRUE
    /\ fetchError = NoFetchError
    /\ exercisesStore = [u \in Users |-> <<>>]
    /\ nextExerciseId = 1
    /\ ScreensInitial

NextStats ==
    \/ DeliverCallback
    \/ \E page \in {HOME, PERSONAL_STATS} : setCurrentPage(page)
    \/ \E s \in 1..Len(subs) : ListenerError(s)
    \/ \E i \in 1..MaxStatRecords : RemoteDelete(StatUser, i)

SpecStats == InitStats /\ [][NextStats]_vars

\* the catalog screen of a signed-in user who has a username, two exercise
\* definitions, and two logged workouts that name them
CatalogDocs == { ExerciseDoc(1, "Squat"), ExerciseDoc(2, "Bench") }
CatalogWorkouts == StatDocs(<< <<StatSquat>>, <<StatSquat, StatBench>> >>)

InitCatalog ==
    /\ userId = StatUser
    /\ username = String("sam")
    /\ profileStore = ProfilesAtStart
    /\ profileFetches = <<>>
    /\ currentPage = HOME
    /\ workoutsStore = [u \in Users |-> IF u = StatUser THEN CatalogWorkouts ELSE <<>>]
    /\ nextDocId = Len(CatalogWorkouts) + 1
    /\ exercisesStore = [u \in Users |->
                            IF u = StatUser
                            THEN <<ExerciseDoc(1, "Squat"), ExerciseDoc(2, "Bench")>>
                            ELSE <<>>]
    /\ nextExerciseId = Cardinality(CatalogDocs) + 1
    /\ scheduled = <<>>
    /\ subs = <<>>
    /\ historySub = 0
    /\ workouts = <<>>
    /\ isLoading = TRUE
    /\ fetchError = ""
    /\ ScreensInitial

\* the Delete button of a listed exercise; the list may lag behind the store
DeleteClick(exercise) == PageRendered /\ handleDeleteClick(exercise.id, exercise.name)

\* the buttons of the confirmation modal
ConfirmClick == PageRendered /\ showConfirmModal /\ confirmDelete
CancelClick == PageRendered /\ showConfirmModal /\ cancelDelete

NextCatalog ==
    \/ \E page \in {HOME, EXERCISE_LIST, WORKOUT_HISTORY, PERSONAL_STATS} :
          NavigateClick(page)
    \/ DeliverCallback
    \/ \E exercise \in CatalogDocs : DeleteClick(exercise)
    \/ Len(pendingOps) < MaxPendingOps /\ ConfirmClick
    \/ CancelClick
    \/ \E i \in 1..Len(pendingOps) : DeleteDocResolved(i)
    \/ \E i \in 1..Len(pendingOps) : DeleteDocRejected(i)
    \/ PageMessageTimeout

SpecCatalog == InitCatalog /\ [][NextCatalog]_vars

\* the form components and the submit of LogWorkout on their own: every
\* handler may be invoked in any state of its component, also before the
\* provider has a user
FormCalls == Len(pendingOps) + Len(pendingAddDocs) + (nextDocId - 1) + (nextExerciseId - 1)
WithinFormCalls == FormCalls < MaxFormCalls

NextForms ==
    \/ AuthStateChanged("u1")
    \/ \E page \in {HOME, ADD_EXERCISE, SET_USERNAME, EXERCISE_LIST, LOG_WORKOUT} :
          setCurrentPage(page)
    \/ \E text \in NameTexts : setExerciseName(text)
    \/ WithinFormCalls /\ AddExercise_handleSubmit
    \/ \E i \in 1..Len(pendingOps) : ExerciseAddResolved(i)
    \/ \E i \in 1..Len(pendingOps) : ExerciseAddRejected(i)
    \/ \E text \in UsernameTexts : setInputUsername(text)
    \/ WithinFormCalls /\ SetUsername_handleSubmit
    \/ \E i \in 1..Len(pendingOps) : SetDocResolved(i)
    \/ \E i \in 1..Len(pendingOps) : SetDocRejected(i)
    \/ \E exercise \in CatalogDocs : handleDeleteClick(exercise.id, exercise.name)
    \/ WithinFormCalls /\ confirmDelete
    \/ cancelDelete
    \/ \E i \in 1..Len(pendingOps) : DeleteDocResolved(i)
    \/ \E i \in 1..Len(pendingOps) : DeleteDocRejected(i)
    \/ PageMessageTimeout
    \/ \E exercise \in ExerciseDefs : handleAddExerciseToWorkout(exercise)
    \/ WithinFormCalls /\ handleSaveWorkout
    \/ \E i \in 1..Len(pendingAddDocs) : AddDocResolved(i)
    \/ \E i \in 1..Len(pendingAddDocs) : AddDocRejected(i)
    \/ MessageTimeout

SpecForms == Init /\ [][NextForms]_vars

\* the history screen of a signed-in user who has a username and has logged
\* up to MaxStatRecords workouts; its controls are the header of every listed
\* workout and the Back to Home button
InitHistory ==
    /\ userId = StatUser
    /\ username = String("sam")
    /\ profileStore = ProfilesAtStart
    /\ profileFetches = <<>>
    /\ currentPage = HOME
    /\ \E n \in 1..MaxStatRecords : \E bodies \in [1..n -> StatLists] :
          /\ workoutsStore = [u \in Users |-> IF u = StatUser THEN StatDocs(bodies) ELSE <<>>]
          /\ nextDocId = n + 1
    /\ scheduled = <<>>
    /\ subs = <<>>
    /\ historySub = 0
    /\ workouts = <<>>
    /\ isLoading = TRUE
    /\ fetchError = ""
    /\ exercisesStore = [u \in Users |-> <<>>]
    /\ nextExerciseId = 1
    /\ ScreensInitial

\* a workout the history list shows
Listed(id) ==
    /\ PageRendered
    /\ Mounted(WORKOUT_HISTORY)
    /\ ~isLoading
    /\ \E k \in 1..Len(workouts) : workouts[k].id = id

\* onClick={() => toggleWorkoutDetails(workout.id)} on the header of a workout
ToggleClick(id) == Listed(id) /\ toggleWorkoutDetails(id)

\* Back to Home is taken while the screen can still be opened again within
\* MaxSubs, so that no behaviour ends for the bound's sake
NextHistory ==
    \/ NavigateClick(WORKOUT_HISTORY)
    \/ Len(subs) < MaxSubs /\ NavigateClick(HOME)
    \/ DeliverCallback
    \/ \E id \in 1..MaxStatRecords : ToggleClick(id)

\* every scheduled callback runs, and the user keeps using the controls
SpecHistory == InitHistory /\ [][NextHistory]_vars /\ WF_vars(NextHistory)

\* the draft of LogWorkout on its own, composed from a catalog of three
\* names: entries are added, edited and removed at any position
DraftDefs == ExerciseDefs \cup { [id |-> "e4", name |-> "Deadlift"] }
DraftPositions == 1..Cardinality({ e.name : e \in DraftDefs })

NextDraft ==
    \/ setCurrentPage(LOG_WORKOUT)
    \/ \E exercise \in DraftDefs : handleAddExerciseToWorkout(exercise)
    \/ MessageTimeout
    \/ \E index \in DraftPositions, field \in Fields :
          \E value \in ValuesFor(field) :
              WithinOps /\ handleUpdateExerciseDetails(index, field, value)
    \/ \E index \in DraftPositions : handleRemoveExerciseFromWorkout(index)

SpecDraft == Init /\ [][NextDraft]_vars

\* an input of a draft entry
FieldChange(index, field, value) ==
    /\ PageRendered
    /\ EntryRendered(index)
    /\ handleUpdateExerciseDetails(index, field, value)

\* the form of LogWorkout as rendered, on a connection that may lose the
\* acknowledgement of a committed insert
NextRetry ==
    \/ SignIn("u1")
    \/ \E i \in 1..Len(profileFetches) : ProfileFetched(i)
    \/ NavigateClick(LOG_WORKOUT)
    \/ \E open \in BOOLEAN : ModalClick(open)
    \/ \E exercise \in ExerciseDefs : AddClick(exercise)
    \/ \E index \in 1..Cardinality(ExerciseNames), field \in Fields :
          \E value \in ValuesFor(field) :
              editCount < MaxEdits /\ FieldChange(index, field, value)
    \/ WithinDocs(MaxDocsUI) /\ SubmitClick
    \/ \E i \in 1..Len(pendingAddDocs) : AddDocResolved(i)
    \/ \E i \in 1..Len(pendingAddDocs) : AddDocRejected(i)
    \/ \E i \in 1..Len(pendingAddDocs) : AddDocAckLost(i)

SpecRetry == Init /\ [][NextRetry]_vars

\* the screens of a signed-in user who has a username and no workout yet:
\* workouts are logged, and the history and the statistics are opened, also
\* while an insert is pending
InitFlow ==
    /\ userId = StatUser
    /\ username = String("sam")
    /\ profileStore = ProfilesAtStart
    /\ profileFetches = <<>>
    /\ currentPage = HOME
    /\ workoutsStore = [u \in Users |-> <<>>]
    /\ nextDocId = 1
    /\ scheduled = <<>>
    /\ subs = <<>>
    /\ historySub = 0
    /\ workouts = <<>>
    /\ isLoading = TRUE
    /\ fetchError = ""
    /\ exercisesStore = [u \in Users |-> <<>>]
    /\ nextExerciseId = 1
    /\ ScreensInitial

\* the catalog entry the workouts of this flow are composed of
FlowDefs == { e \in ExerciseDefs : e.id = "e1" }

NextFlow ==
    \/ \E page \in {HOME, LOG_WORKOUT, WORKOUT_HISTORY, PERSONAL_STATS} :
          NavigateClick(page)
    \/ ModalClick(TRUE)
    \/ \E exercise \in FlowDefs : AddClick(exercise)
    \/ WithinDocs(MaxDocsUI) /\ SubmitClick
    \/ \E i \in 1..Len(pendingAddDocs) : AddDocResolved(i)
    \/ \E i \in 1..Len(pendingAddDocs) : AddDocRejected(i)
    \/ DeliverCallback
    \/ \E s \in 1..Len(subs) : ListenerError(s)

\* the provider's auth listener and its profile fetches, under the home page
\* and the history screen: the user signs in, signs out and changes, and
\* the fetches resolve in any order
NextAuth ==
    \/ \E u \in UserIds : Len(profileFetches) < MaxFetches /\ AuthStateChanged(u)
    \/ \E i \in 1..Len(profileFetches) : ProfileFetched(i)
    \/ \E i \in 1..Len(profileFetches) : ProfileFetchFailed(i)
    \/ \E page \in {HOME, WORKOUT_HISTORY} : setCurrentPage(page)
    \/ DeliverCallback

SpecAuth == Init /\ [][NextAuth]_vars

\* the SDK runs every callback it has scheduled
SpecFlow == InitFlow /\ [][NextFlow]_vars /\ WF_vars(DeliverCallback)


(* ====================================================================== *)
(*                                 claims                                 *)
(* ====================================================================== *)
HasName(draft, name) == \E i \in 1..Len(draft) : draft[i].exerciseName = name

\* the value a draft field has in the inserted record
Submitted(v) == IF v = EmptyString THEN Number(0) ELSE v

LastPending == pendingAddDocs[Len(pendingAddDocs)]

\* C1: a submit of the empty draft by a resolved user shows the validation
\* error and sends no insert; the draft and the workouts store stay as they
\* were.
C1_EmptySubmitRejected ==
    [][(handleSaveWorkout /\ userId # NoUser /\ Len(workoutExercises) = 0)
         => /\ message' = MsgEmptyWorkout
            /\ messageType' = "error"
            /\ pendingAddDocs' = pendingAddDocs
            /\ workoutExercises' = workoutExercises
            /\ workoutsStore' = workoutsStore]_vars

C1_Witness ==
    /\ message = MsgEmptyWorkout
    /\ messageType = "error"
    /\ workoutExercises = <<>>
    /\ pendingAddDocs = <<>>
    /\ userId # NoUser

\* C2: adding an exercise whose name is already in the draft leaves the
\* draft unchanged and shows the duplicate warning as an error message.
C2_DuplicateAddRejected ==
    [][\A exercise \in ExerciseDefs :
          (handleAddExerciseToWorkout(exercise) /\ HasName(workoutExercises, exercise.name))
            => /\ workoutExercises' = workoutExercises
               /\ message' = MsgDuplicate(exercise.name)
               /\ messageType' = "error"]_vars

C2_Witness ==
    /\ Len(workoutExercises) = 1
    /\ message = MsgDuplicate(workoutExercises[1].exerciseName)
    /\ messageType = "error"

\* C3: no two entries of the draft share an exerciseName, in every reachable
\* state, although the catalog holds two definitions with the same name.
C3_UniqueNames ==
    \A i, j \in 1..Len(workoutExercises) :
        i # j => workoutExercises[i].exerciseName # workoutExercises[j].exerciseName

C3_Witness ==
    /\ Len(workoutExercises) = 2
    /\ \E e1, e2 \in ExerciseDefs : e1.id # e2.id /\ e1.name = e2.name
                                    /\ message = MsgDuplicate(e1.name)

\* the positions of the draft whose weight was last set to '' by an update
Blanked == { i \in 1..Len(workoutExercises) :
               workoutExercises[i].exerciseName \in blankedWeight }

\* C4: updating weight with the empty string stores the empty string, not 0;
\* the weight then is the empty string in every state until a later weight
\* update, the entry's removal or the draft's reset; and the record a submit
\* sends carries weight 0 for the entry.
C4_BlankWeightUntilSubmit ==
    [][/\ \A i \in 1..Len(workoutExercises) :
            handleUpdateExerciseDetails(i, "weight", "")
              => workoutExercises'[i].weight = EmptyString
       /\ \A i \in 1..Len(workoutExercises') :
            workoutExercises'[i].exerciseName \in blankedWeight'
              => workoutExercises'[i].weight = EmptyString
       /\ (handleSaveWorkout /\ Len(pendingAddDocs') = Len(pendingAddDocs) + 1)
              => \A i \in Blanked :
                    pendingAddDocs'[Len(pendingAddDocs')].data.exercisesPerformed[i].weight
                       = Number(0)
      ]_vars

C4_Witness ==
    /\ Len(pendingAddDocs) = 1
    /\ Len(workoutExercises) = 2
    /\ Blanked = {2}
    /\ workoutExercises[2].weight = EmptyString
    /\ LastPending.data.exercisesPerformed[2].weight = Number(0)
    /\ LastPending.data.exercisesPerformed[2].exerciseName
          = workoutExercises[2].exerciseName

\* C5: an accepted submit sends exactly one insert whose exercisesPerformed
\* lists the draft's entries in draft order, with the same names and notes
\* and the numeric fields normalized; when the insert succeeds, exactly that
\* record is added to the store and the draft is empty.
C5_SubmitSendsOneInsert ==
    [][/\ (handleSaveWorkout /\ userId # NoUser /\ Len(workoutExercises) > 0)
            => /\ Len(pendingAddDocs') = Len(pendingAddDocs) + 1
               /\ SubSeq(pendingAddDocs', 1, Len(pendingAddDocs)) = pendingAddDocs
               /\ workoutsStore' = workoutsStore
               /\ LET sent == pendingAddDocs'[Len(pendingAddDocs')].data.exercisesPerformed
                  IN /\ Len(sent) = Len(workoutExercises)
                     /\ \A i \in 1..Len(workoutExercises) :
                           /\ sent[i].exerciseName = workoutExercises[i].exerciseName
                           /\ sent[i].sets = Submitted(workoutExercises[i].sets)
                           /\ sent[i].reps = Submitted(workoutExercises[i].reps)
                           /\ sent[i].weight = Submitted(workoutExercises[i].weight)
                           /\ sent[i].notes = workoutExercises[i].notes
       /\ \A k \in 1..Len(pendingAddDocs) :
            AddDocResolved(k)
            => /\ Len(workoutsStore'[pendingAddDocs[k].user])
                    = Len(workoutsStore[pendingAddDocs[k].user]) + 1
               /\ LET docs == workoutsStore'[pendingAddDocs[k].user]
                  IN docs[Len(docs)].exercisesPerformed
                        = pendingAddDocs[k].data.exercisesPerformed
               /\ Len(pendingAddDocs') = Len(pendingAddDocs) - 1
               /\ pendingAddDocs[k].mounted => workoutExercises' = <<>>
      ]_vars

C5_Witness ==
    /\ message = MsgSaved
    /\ workoutExercises = <<>>
    /\ pendingAddDocs = <<>>
    /\ \E u \in Users :
          /\ Len(workoutsStore[u]) = 1
          /\ Len(workoutsStore[u][1].exercisesPerformed) = 2
          /\ workoutsStore[u][1].exercisesPerformed[1].exerciseName = "Bench"
          /\ workoutsStore[u][1].exercisesPerformed[2].exerciseName = "Squat"

IsNonNegativeNumber(v) == v.type = "number" /\ v.num >= 0

ValidRecord(data) ==
    /\ Len(data.exercisesPerformed) > 0
    /\ \A i \in 1..Len(data.exercisesPerformed) :
          /\ IsNonNegativeNumber(data.exercisesPerformed[i].sets)
          /\ IsNonNegativeNumber(data.exercisesPerformed[i].reps)
          /\ IsNonNegativeNumber(data.exercisesPerformed[i].weight)

\* C6: every record the application inserts, in flight or stored, has a
\* non-empty exercisesPerformed whose sets, reps and weight are numbers >= 0.
C6_InsertedRecordsValid ==
    /\ \A k \in 1..Len(pendingAddDocs) : ValidRecord(pendingAddDocs[k].data)
    /\ \A u \in Users : \A k \in 1..Len(workoutsStore[u]) : ValidRecord(workoutsStore[u][k])

C6_Witness ==
    /\ Len(pendingAddDocs) = 1
    /\ Len(workoutExercises) > 0
    /\ workoutExercises[1].sets = EmptyString
    /\ workoutExercises[1].weight = EmptyString
    /\ LastPending.data.exercisesPerformed[1].sets = Number(0)
    /\ LastPending.data.exercisesPerformed[1].weight = Number(0)


MountedPending == { k \in 1..Len(pendingAddDocs) : pendingAddDocs[k].mounted }

\* C7 as stated: at most one workout insert is in flight at any time.
C7_AtMostOneInFlight == Len(pendingAddDocs) <= 1

\* C7 as amended: of the inserts started by the LogWorkout screen that is
\* mounted, at most one is in flight, and while it is the in-flight flag is
\* set, which disables the submit button.
C7_OneInFlightPerScreen ==
    /\ Cardinality(MountedPending) <= 1
    /\ MountedPending # {} => (isSavingWorkout /\ currentPage = LOG_WORKOUT)

C7_Witness ==
    /\ Len(pendingAddDocs) = 2
    /\ Cardinality(MountedPending) = 1
    /\ isSavingWorkout
    /\ Len(workoutExercises) > 0

Dated(w) == w.date # NullDate

\* C8 as stated: the history mirror is ordered by date descending and every
\* record without a date comes after every dated record.
C8_SortedNullLast ==
    \A i, j \in 1..Len(workouts) :
        i < j =>
          /\ (Dated(workouts[i]) /\ Dated(workouts[j]))
                => workouts[i].date.time >= workouts[j].date.time
          /\ ~(~Dated(workouts[i]) /\ Dated(workouts[j]))

SameRecords(list, docs) ==
    /\ Len(list) = Len(docs)
    /\ \A k \in 1..Len(docs) :
          Cardinality({ i \in 1..Len(list) : list[i] = FetchedWorkout(docs[k]) }) = 1

\* C9: a delivered snapshot replaces the mirror: afterwards the list holds
\* exactly the records of that snapshot, and no other step changes the list
\* while the screen stays mounted.
C9_MirrorReplacedWholesale ==
    [][/\ ( /\ Len(scheduled) > 0
            /\ scheduled' = Tail(scheduled)
            /\ Head(scheduled).kind = "snapshot"
            /\ Head(scheduled).sub = historySub )
            => SameRecords(workouts', Head(scheduled).docs)
       /\ (workouts' # workouts)
            => \/ ( /\ Len(scheduled) > 0
                    /\ scheduled' = Tail(scheduled)
                    /\ Head(scheduled).kind = "snapshot" )
               \/ currentPage' # WORKOUT_HISTORY
      ]_vars

C9_Witness ==
    /\ currentPage = WORKOUT_HISTORY
    /\ userId # NoUser
    /\ ~isLoading
    /\ scheduled = <<>>
    /\ nextDocId = 3
    /\ Len(workouts) = 1
    /\ SameRecords(workouts, workoutsStore[userId])
    /\ \A u \in Users : u # userId => workoutsStore[u] = <<>>

StatsShown == Mounted(PERSONAL_STATS) /\ ~isLoading

\* the positions <<record, exercise>> of the performed exercises of a list
ExercisePositions(ws) ==
    UNION { { <<i, j>> : j \in 1..Len(ws[i].exercisesPerformed) } : i \in 1..Len(ws) }
ExerciseAt(ws, p) == ws[p[1]].exercisesPerformed[p[2]]

\* C11: for any list of WorkoutRecords the statistics screen has loaded,
\* totalExercisesLogged is the sum over the records of the length of
\* exercisesPerformed (the number of performed exercises in the list), and it
\* is 0 for the empty list.
C11_TotalExercisesLogged ==
    StatsShown =>
        /\ stats.totalExercisesLogged = Cardinality(ExercisePositions(workouts))
        /\ (workouts = <<>> => stats.totalExercisesLogged = 0)

\* two records, of one and of two exercises, give 3
C11_Witness ==
    /\ StatsShown
    /\ Len(workouts) = 2
    /\ Len(workouts[1].exercisesPerformed) = 1
    /\ Len(workouts[2].exercisesPerformed) = 2
    /\ stats.totalExercisesLogged = 3

RECURSIVE SumOfWeightTimesSets(_, _)
SumOfWeightTimesSets(ws, S) ==
    IF S = {} THEN 0
    ELSE LET p == CHOOSE q \in S : TRUE
             ex == ExerciseAt(ws, p)
         IN (IF IsNumber(ex.weight) /\ IsNumber(ex.sets)
             THEN ex.weight.num * ex.sets.num ELSE 0)
            + SumOfWeightTimesSets(ws, S \ {p})

\* C13: for any list of WorkoutRecords, totalVolumeLifted is the sum of
\* weight * sets over every performed exercise whose weight and sets are both
\* numbers, the reps playing no part; the single-exercise records
\* (sets 3, weight 10) and (sets 2, weight 0) give 30.
C13_TotalVolumeLifted ==
    StatsShown =>
        /\ stats.totalVolumeLifted =
              SumOfWeightTimesSets(workouts, ExercisePositions(workouts))
        /\ ( /\ Len(workouts) = 2
             /\ workouts[1].exercisesPerformed = <<StatSquat>>
             /\ workouts[2].exercisesPerformed = <<StatBench>> )
           => stats.totalVolumeLifted = 30

\* the two records of the example are on the screen
C13_Witness ==
    /\ StatsShown
    /\ Len(workouts) = 2
    /\ workouts[1].exercisesPerformed = <<StatSquat>>
    /\ workouts[2].exercisesPerformed = <<StatBench>>
    /\ stats.totalVolumeLifted = 30

\* the name an exercise is counted under, its occurrence count in a list, and
\* the first position in input order at which the name occurs
CountedName(ws, p) == NameOrUnknown(ExerciseAt(ws, p).exerciseName)
CountedNames(ws) == { CountedName(ws, p) : p \in ExercisePositions(ws) }
Occurrences(ws, name) ==
    Cardinality({ p \in ExercisePositions(ws) : CountedName(ws, p) = name })
Before(p, q) == p[1] < q[1] \/ (p[1] = q[1] /\ p[2] < q[2])
FirstEncountered(ws, name) ==
    CHOOSE p \in ExercisePositions(ws) :
        /\ CountedName(ws, p) = name
        /\ \A q \in ExercisePositions(ws) : CountedName(ws, q) = name => ~Before(q, p)

\* the name with the highest occurrence count, a tie going to the name first
\* encountered in input order; "N/A" for a list without records
MostFrequentInInputOrder(ws) ==
    IF Len(ws) = 0 THEN NotAvailable
    ELSE CHOOSE n \in CountedNames(ws) :
            \A m \in CountedNames(ws) \ {n} :
                \/ Occurrences(ws, n) > Occurrences(ws, m)
                \/ /\ Occurrences(ws, n) = Occurrences(ws, m)
                   /\ Before(FirstEncountered(ws, n), FirstEncountered(ws, m))

\* C14: mostFrequentExercise is the exerciseName with the highest occurrence
\* count over all performed exercises of all records, a tie going to the name
\* first encountered in input order, and it is "N/A" when the list has no
\* records.
C14_MostFrequentFirstEncountered ==
    StatsShown => stats.mostFrequentExercise = MostFrequentInInputOrder(workouts)

(* --------------------- C15: deleting a definition --------------------- *)
\* an exercise definition of user u carries the name / a workout record of
\* user u names the exercise
InCatalog(u, name) ==
    \E k \in 1..Len(exercisesStore[u]) : exercisesStore[u][k].name = name
NamedInWorkouts(u, name) ==
    \E k \in 1..Len(workoutsStore[u]) : HasName(workoutsStore[u][k].exercisesPerformed, name)

\* C15: the deletion of an ExerciseDefinition changes nothing in the workouts
\* store, in the history mirror or in the statistics: every WorkoutRecord,
\* also one whose performed exercises carry the deleted name, is as before.
C15_DeleteKeepsWorkouts ==
    [][(\E i \in 1..Len(pendingOps) : DeleteDocResolved(i))
          => /\ workoutsStore' = workoutsStore
             /\ workouts' = workouts
             /\ stats' = stats]_vars

\* 'Squat' is gone from the catalog, the records that name it are in the
\* store, and the statistics opened afterwards still count it
C15_Witness ==
    /\ ~InCatalog(StatUser, "Squat")
    /\ NamedInWorkouts(StatUser, "Squat")
    /\ workoutsStore[StatUser] = CatalogWorkouts
    /\ StatsShown
    /\ stats.mostFrequentExercise = "Squat"
    /\ stats.totalWorkouts = 2

(* ------------------- C16: deleting a logged workout ------------------- *)
Stored(id) ==
    \E k \in 1..Len(workoutsStore[StatUser]) : workoutsStore[StatUser][k].id = id

\* C16: a user can delete an individual workout from the history: for a
\* workout the history lists there is a user action after which the record is
\* no longer in the workouts store and no longer in the list, so a user who
\* keeps using the controls of the screen gets there.
C16_WorkoutDeletable ==
    \A id \in 1..MaxStatRecords :
        Listed(id) ~> (~Stored(id) /\ ~Listed(id))

(* ------------------- C17 .. C19: failures of actions ------------------ *)
\* C17: every failure of a user action (validation, auth or store failure of
\* the workout submit, add-exercise, set-username, delete-exercise) becomes a
\* message that is cleared automatically after a delay: while an error message
\* is shown, a timeout that clears it is armed.
C17_FailureMessagesTransient ==
    /\ messageType = "error" => messageTimers > 0
    /\ pageMessageType = "error" => pageTimers > 0

\* a text that is empty after trimming: it has no piece but blanks
AllBlank(text) == \A k \in 1..Len(text) : text[k] = Blank

\* C18: a submit of the add-exercise form or of the set-username form with a
\* name that is empty after trimming shows the validation message and does
\* not touch the store: no store call is issued, the exercises and the
\* profile documents stay as they were, and so does the context username.
C18_EmptyNameRejected ==
    [][ /\ (AddExercise_handleSubmit /\ AllBlank(exerciseName))
            => /\ pageMessage' = MsgEmptyExerciseName
               /\ pageMessageType' = "error"
               /\ UNCHANGED <<pendingOps, exercisesStore, profileStore, username>>
        /\ (SetUsername_handleSubmit /\ AllBlank(inputUsername))
            => /\ pageMessage' = MsgEmptyUsername
               /\ pageMessageType' = "error"
               /\ UNCHANGED <<pendingOps, exercisesStore, profileStore, username>>
      ]_vars

\* a signed-in user has submitted a name of blanks only
C18_Witness ==
    /\ userId # NoUser
    /\ Mounted(ADD_EXERCISE)
    /\ exerciseName = <<Blank, Blank>>
    /\ pageMessage = MsgEmptyExerciseName
    /\ pageMessageType = "error"
    /\ pendingOps = <<>>
    /\ exercisesStore[userId] = <<>>

\* a step that issues a store write
IssuesWrite ==
    \/ Len(pendingAddDocs') > Len(pendingAddDocs)
    \/ Len(pendingOps') > Len(pendingOps)

\* a handler that writes to the store is invoked
WritingHandler ==
    \/ handleSaveWorkout
    \/ AddExercise_handleSubmit
    \/ SetUsername_handleSubmit
    \/ confirmDelete

\* C19: no store write (workout insert, exercise insert, exercise delete,
\* profile write) is issued while userId is null: the handler shows an error
\* message and stops, and the store is unchanged.
C19_NoWriteWithoutUser ==
    [][ /\ IssuesWrite => userId # NoUser
        /\ (WritingHandler /\ userId = NoUser)
            => /\ messageType' = "error" \/ pageMessageType' = "error"
               /\ UNCHANGED <<pendingAddDocs, pendingOps>>
               /\ UNCHANGED <<workoutsStore, exercisesStore, profileStore>>
      ]_vars

\* before the provider has a user, a name was submitted to the add-exercise
\* form and the form shows the auth error
C19_Witness ==
    /\ userId = NoUser
    /\ Mounted(ADD_EXERCISE)
    /\ ~AllBlank(exerciseName)
    /\ pageMessage = MsgAddNotAuthenticated
    /\ pageMessageType = "error"
    /\ pendingOps = <<>>

(* ---------------------- C20: updating a draft field ------------------- *)
\* the number a non-empty input text stands for, clamped to >= 0: 0 for a
\* negative and for an unparsable text
ClampedNumber(value) ==
    CASE value = "2" -> Number(2)
      [] value = "-1" -> Number(0)
      [] value = "abc" -> Number(0)

\* C20: an update of sets, reps or weight with a non-empty value stores the
\* parsed number clamped to >= 0 (0 for a negative or unparsable value); an
\* update of notes stores the value as it is; no other field of the entry and
\* no other entry changes, and the length and the order of the draft are kept.
C20_UpdateStoresClampedNumber ==
    [][\A index \in 1..Len(workoutExercises), field \in Fields :
          \A value \in ValuesFor(field) \ {""} :
              handleUpdateExerciseDetails(index, field, value)
                => /\ Len(workoutExercises') = Len(workoutExercises)
                   /\ \A i \in 1..Len(workoutExercises) :
                         i # index => workoutExercises'[i] = workoutExercises[i]
                   /\ \A f \in (DOMAIN workoutExercises[index]) \ {field} :
                         workoutExercises'[index][f] = workoutExercises[index][f]
                   /\ workoutExercises'[index][field] =
                         IF field \in NumericFields THEN ClampedNumber(value) ELSE value
      ]_vars

\* two updates of the second entry: a weight that clamped to 0, and a note
C20_Witness ==
    /\ editCount = 2
    /\ Len(workoutExercises) = 2
    /\ workoutExercises[2].weight = Number(0)
    /\ workoutExercises[2].notes = "felt easy"
    /\ workoutExercises[1].weight = EmptyString
    /\ workoutExercises[1].notes = ""

(* ---------------------- C21: removing a draft entry ------------------- *)
NamesOf(draft) == [i \in 1..Len(draft) |-> draft[i].exerciseName]

\* C21: removing the entry at a position of the draft leaves a draft that is
\* one shorter: the entries before the position keep their positions, the
\* entries after it move down by one, and every kept entry is unchanged.
C21_RemoveShiftsDown ==
    [][\A index \in 1..Len(workoutExercises) :
          handleRemoveExerciseFromWorkout(index)
            => /\ Len(workoutExercises') = Len(workoutExercises) - 1
               /\ \A i \in 1..(index - 1) : workoutExercises'[i] = workoutExercises[i]
               /\ \A i \in (index + 1)..Len(workoutExercises) :
                     workoutExercises'[i - 1] = workoutExercises[i]
      ]_vars

\* the duplicate warning about Bench is still shown and Bench is gone: no
\* entry was added since the warning, so Bench was removed from a draft of
\* three, and Squat and Deadlift are left in their order with their contents
C21_Witness ==
    /\ message = MsgDuplicate("Bench")
    /\ NamesOf(workoutExercises) = <<"Squat", "Deadlift">>
    /\ workoutExercises[2].notes = "felt easy"
    /\ workoutExercises[1].notes = ""

(* -------------------- C22: a retry after a lost reply ----------------- *)
SameContent(d1, d2) ==
    /\ d1.userId = d2.userId
    /\ d1.date = d2.date
    /\ d1.exercisesPerformed = d2.exercisesPerformed

\* C22: submission is not idempotent. When an insert is committed but the
\* client is told it failed, the draft is kept and submit is enabled again;
\* and every insert that is committed adds a document of its own, also when
\* the collection already holds a document with the same content, so that a
\* retry leaves two records of one draft.
C22_RetryInsertsDuplicate ==
    [][\A i \in 1..Len(pendingAddDocs) :
          LET op == pendingAddDocs[i]
              before == workoutsStore[op.user]
              after == workoutsStore'[op.user]
          IN /\ (AddDocAckLost(i) /\ op.mounted)
                  => /\ workoutExercises' = workoutExercises
                     /\ workoutDate' = workoutDate
                     /\ messageType' = "error"
                     /\ ~SubmitDisabled'
             /\ (AddDocAckLost(i) \/ AddDocResolved(i))
                  => /\ Len(after) = Len(before) + 1
                     /\ SubSeq(after, 1, Len(before)) = before
                     /\ after[Len(after)].exercisesPerformed = op.data.exercisesPerformed
                     /\ \A k \in 1..Len(before) : after[Len(after)].id # before[k].id
      ]_vars

\* the one draft that was given a note is still in the form after two failed
\* submits, and the collection holds two records of it
C22_Witness ==
    /\ editCount = 1
    /\ Len(workoutExercises) = 1
    /\ workoutExercises[1].notes = "felt easy"
    /\ message = MsgSaveFailed
    /\ Len(workoutsStore["u1"]) = 2
    /\ workoutsStore["u1"][1].id # workoutsStore["u1"][2].id
    /\ SameContent(workoutsStore["u1"][1], workoutsStore["u1"][2])
    /\ workoutsStore["u1"][1].exercisesPerformed = Map(workoutExercises, PerformedExercise)

(* ------------------ C23: the draft while a submit is pending ---------- *)
\* a submit of the mounted form awaits its reply
Submitting == \E i \in 1..Len(pendingAddDocs) : pendingAddDocs[i].mounted

\* C23: from the start of a submit to its resolution nothing else changes
\* the draft, and the draft that is cleared on success is the one that was
\* inserted.
C23_DraftFrozenWhileSubmitting ==
    [][Submitting =>
          /\ (workoutExercises' # workoutExercises
                 => \E i \in 1..Len(pendingAddDocs) : AddDocResolved(i))
          /\ \A i \in 1..Len(pendingAddDocs) :
                (AddDocResolved(i) /\ pendingAddDocs[i].mounted)
                  => pendingAddDocs[i].data.exercisesPerformed =
                        Map(workoutExercises, PerformedExercise)
      ]_vars

(* ------------------ C24: an error of the history listener ------------- *)
\* the error callback of the screen's subscription has run
HistoryFailed ==
    /\ historySub # 0
    /\ subs[historySub].failed
    /\ fetchError = MsgFetchFailed

\* the head of the callback queue is the error of a live subscription
ErrorIsNext ==
    /\ Len(scheduled) > 0
    /\ Head(scheduled).kind = "error"
    /\ ~subs[Head(scheduled).sub].muted

\* C24: the error callback of the history subscription sets the error
\* message and clears the loading flag, and opens no subscription; from then
\* on the mirror and the error state stay as they are while the screen keeps
\* that subscription; and a subscription is opened only by a step that
\* mounts the screen or changes the user.
C24_ErrorStopsSubscription ==
    [][/\ (DeliverCallback /\ ErrorIsNext)
            => /\ fetchError' = MsgFetchFailed
               /\ ~isLoading'
               /\ workouts' = workouts
               /\ subs' = subs
               /\ historySub' = historySub
       /\ (HistoryFailed /\ historySub' = historySub)
            => /\ workouts' = workouts
               /\ fetchError' = fetchError
               /\ ~isLoading'
               /\ subs'[historySub].failed
       /\ Len(subs') > Len(subs)
            => \/ currentPage # WORKOUT_HISTORY /\ currentPage' = WORKOUT_HISTORY
               \/ userId' # userId
      ]_vars

\* the screen shows the error, no callback is left to run, and a document
\* written after the error is not in the mirror
C24_Witness ==
    /\ Mounted(WORKOUT_HISTORY)
    /\ HistoryFailed
    /\ ~isLoading
    /\ scheduled = <<>>
    /\ Len(workoutsStore[userId]) > Len(workouts)

(* ------------- C25: the statistics and the order of the list ---------- *)
\* the lists that hold the records of ws in another order
Reorderings(ws) ==
    { [i \in 1..Len(ws) |-> ws[p[i]]] :
        p \in { f \in [1..Len(ws) -> 1..Len(ws)] :
                   \A i, j \in 1..Len(ws) : f[i] = f[j] => i = j } }

\* one name is counted more often than every other name of the list
UniqueTop(ws) ==
    \E name \in CountedNames(ws) :
        \A other \in CountedNames(ws) \ {name} :
            Occurrences(ws, other) < Occurrences(ws, name)

C26_StatsOfCurrentList ==
    StatsShown =>
        /\ stats.totalWorkouts = Len(workouts)
        /\ stats.totalExercisesLogged = Cardinality(ExercisePositions(workouts))
        /\ stats = ComputedStats(workouts)

\* the first snapshot held two records with a volume; one of them was
\* deleted since, and the snapshot that followed has been applied
C26_Witness ==
    /\ StatsShown
    /\ nextDocId = 3
    /\ Len(workoutsStore[StatUser]) = 1
    /\ scheduled = <<>>
    /\ ~subs[historySub].failed
    /\ Len(workouts) = 1
    /\ stats.totalWorkouts = 1
    /\ stats.totalVolumeLifted = 30

(* ------------- C27: from a submit to the mirror and the stats --------- *)
\* the mounted screen holds a subscription of the user that is being served
Live ==
    /\ historySub # 0
    /\ subs[historySub].user = userId
    /\ ~subs[historySub].muted
    /\ ~subs[historySub].failed

InMirror(id) == \E k \in 1..Len(workouts) : workouts[k].id = id

\* the record is in what the screen shows: in the mirror, and on the
\* statistics screen in the stats computed from the mirror
Shown(id) ==
    /\ ~isLoading
    /\ InMirror(id)
    /\ Mounted(PERSONAL_STATS)
          => stats = ComputedStats(workouts) /\ stats.totalWorkouts >= 1

\* C27: once a submitted workout is in the store, a live subscription of
\* the user's screen gets a snapshot with it: unless the subscription ends
\* first, the mirror comes to contain the record and the statistics are
\* computed from a list that includes it.
C27_SubmittedRecordShown ==
    \A id \in 1..MaxDocsUI : (Stored(id) /\ Live) ~> (Shown(id) \/ ~Live)

\* the statistics screen was opened while the insert was pending and has
\* applied its first, empty snapshot; the insert has succeeded, and the
\* snapshot with the record waits to be delivered
C27_Witness ==
    /\ Mounted(PERSONAL_STATS)
    /\ Live
    /\ ~isLoading
    /\ workouts = <<>>
    /\ stats = StatsInitial
    /\ pendingAddDocs = <<>>
    /\ Stored(1)
    /\ Len(scheduled) = 1
    /\ \E k \in 1..Len(scheduled[1].docs) : scheduled[1].docs[k].id = 1

(* --------------- C28: the username and the signed-in user ------------- *)
\* C28: the username of the context belongs to the current auth state: it
\* is null while userId is null, and otherwise it is null or the username of
\* the profile of userId, whatever the order in which the profile fetches of
\* earlier auth-state callbacks resolve.
C28_UsernameOfCurrentUser ==
    /\ userId = NoUser => username = NoUsername
    /\ username # NoUsername => username = profileStore[userId]

(* ---------------- C29: what a confirmed delete is sent for ------------ *)
DeleteOps(ops) == SelectSeq(ops, LAMBDA op : op.kind = "deleteDoc")

\* C29: a delete is sent to the store only by a confirm, for the exercise
\* the pending target names; the target is set by a delete click only, to
\* the exercise clicked, so it is that of the most recent click; cancel sends
\* nothing and clears the target, and a confirm without a target sends
\* nothing; the store loses a definition only when a delete sent that way
\* resolves, and then only the one it was sent for.
C29_DeleteOnlyConfirmedTarget ==
    [][/\ Len(DeleteOps(pendingOps')) > Len(DeleteOps(pendingOps))
            => /\ confirmDelete
               /\ exerciseToDeleteId # NoExerciseId
               /\ pendingOps' = Append(pendingOps, pendingOps'[Len(pendingOps')])
               /\ pendingOps'[Len(pendingOps')].id = exerciseToDeleteId
               /\ pendingOps'[Len(pendingOps')].user = userId
       /\ \A exercise \in CatalogDocs :
             handleDeleteClick(exercise.id, exercise.name)
               => exerciseToDeleteId' = exercise.id /\ pendingOps' = pendingOps
       /\ (exerciseToDeleteId' # exerciseToDeleteId /\ exerciseToDeleteId' # NoExerciseId)
            => \E exercise \in CatalogDocs : handleDeleteClick(exercise.id, exercise.name)
       /\ cancelDelete
            => exerciseToDeleteId' = NoExerciseId /\ pendingOps' = pendingOps
       /\ (confirmDelete /\ exerciseToDeleteId = NoExerciseId)
            => pendingOps' = pendingOps /\ exercisesStore' = exercisesStore
       /\ \A u \in Users : \A k \in 1..Len(exercisesStore[u]) :
             LET d == exercisesStore[u][k]
             IN (\A j \in 1..Len(exercisesStore'[u]) : exercisesStore'[u][j] # d)
                  => \E i \in 1..Len(pendingOps) :
                        /\ DeleteDocResolved(i)
                        /\ pendingOps[i].user = u
                        /\ pendingOps[i].id = d.id
      ]_vars

\* the first exercise was clicked, confirmed and deleted; then the second
\* was clicked and confirmed, and the delete that is pending is for the second
C29_Witness ==
    /\ Mounted(EXERCISE_LIST)
    /\ Len(exercisesStore[StatUser]) = 1
    /\ exercisesStore[StatUser][1].id = 2
    /\ Len(pendingOps) = 1
    /\ pendingOps[1].kind = "deleteDoc"
    /\ pendingOps[1].id = 2
    /\ exerciseToDeleteId = 2
    /\ showConfirmModal

====
